---- MODULE Spec2Model ----
(***************************************************************************)
(* Model of the MIR record parser (pyuvdata/uvdata/mir_parser.py):         *)
(* the cross-reference filter engine MirParser._update_filter and the      *)
(* payload life cycle (load_data / unload_data) of one MirParser object.   *)
(*                                                                         *)
(* Tables are sequences of records; numpy arrays of booleans are sequences *)
(* of BOOLEAN; Python dictionaries are functions.  A field that holds      *)
(* either None or a value holds None (the empty tuple) or Some(value) (a   *)
(* 1-tuple).  Row positions stored in dictionaries are the Python          *)
(* (0-based) positions, so row p of the code is element p+1 of a sequence. *)
(***************************************************************************)
EXTENDS Integers, Sequences, FiniteSets, TLC

(* ---------------------------------------------------------------- bounds *)
NumIn == 2      \* rows of the integration table   (in_read)
NumBl == 2      \* rows of the baseline table      (bl_read)
NumSp == 3      \* rows of the spectral table      (sp_read)
MaxEdits == 1   \* mask entries the caller changes in one life cycle (Spec)
MaxNch == 2     \* channels of a synthetic spectral record
MaxPad == 1     \* 16-bit elements stored before a synthetic spectral record
MaxRecords == 3 \* records of a synthetic visibility blob
MaxPayload == 2 \* 16-bit elements of packed data in one such record
MaxCut == 5     \* 16-bit elements missing at the end of a truncated blob
MaxAutoRecs == 2 \* records of a synthetic autoCorrelations file

None == <<>>
Some(x) == <<x>>
ValueOf(field) == field[1]

VARIABLES
    in_read, bl_read, sp_read, eng_read, we_read, ac_read,   \* full tables
    sch_read,                          \* the visibility blob, 16-bit elements
    in_start_dict,
    use_in, use_bl, use_sp,                                  \* user masks
    in_filter, bl_filter, sp_filter, eng_filter, we_filter, ac_filter,
    in_data, bl_data, sp_data, eng_data, we_data, ac_data,   \* views
    inhid_dict, blhid_dict, sphid_dict,
    vis_data, raw_data, raw_scale_fac, auto_data,
    vis_data_loaded, raw_data_loaded,  \* FALSE: the attribute is not set yet
    called,     \* the last completed call and its arguments
    changed,    \* filter_changed of the last _update_filter that ran
    applied,    \* _update_filter runs since the last mask change (0, 1, 2+)
    edits,      \* mask entries changed so far, counted up to MaxEdits
    scan        \* the locals of a scan_int_start call that is running

tables  == <<in_read, bl_read, sp_read, eng_read, we_read, ac_read,
             sch_read, in_start_dict>>
masks   == <<use_in, use_bl, use_sp>>
filters == <<in_filter, bl_filter, sp_filter, eng_filter, we_filter, ac_filter>>
views   == <<in_data, bl_data, sp_data, eng_data, we_data, ac_data>>
dicts   == <<inhid_dict, blhid_dict, sphid_dict>>
payload == <<vis_data, raw_data, raw_scale_fac, auto_data,
             vis_data_loaded, raw_data_loaded>>
vars    == <<tables, masks, filters, views, dicts, payload,
             called, changed, applied, edits, scan>>

(* --------------------------------------------------------------- helpers *)
Range(s) == {s[i] : i \in DOMAIN s}

Max(S) == CHOOSE x \in S : \A y \in S : y <= x
Min(S) == CHOOSE x \in S : \A y \in S : x <= y

\* np.ones(shape, dtype=bool)
np_ones(n) == [i \in 1..n |-> TRUE]

\* np.logical_and(a, b), element by element
logical_and(a, b) == [i \in DOMAIN a |-> a[i] /\ b[i]]

\* tbl[flt]: boolean-mask indexing keeps the rows whose mask entry is true,
\* in table order
Slice(tbl, flt) ==
    LET F[n \in 0..Len(tbl)] ==
            IF n = 0 THEN <<>>
            ELSE IF flt[n] THEN Append(F[n - 1], tbl[n]) ELSE F[n - 1]
    IN  F[Len(tbl)]

\* tbl[col]: one column of a table
Column(tbl, col) == [i \in DOMAIN tbl |-> tbl[i][col]]

\* {key: value for key, value in zip(keys, values)}: a later pair overwrites
\* an earlier one with the same key
zip_dict(keys, values) ==
    [k \in Range(keys) |-> values[Max({i \in DOMAIN keys : keys[i] = k})]]

\* A plausible slip: positions counted from one
pos_dict_from_one(tbl, col) ==
    [k \in Range(Column(tbl, col)) |->
        Max({i \in DOMAIN tbl : tbl[i][col] = k})]

\* {tbl[col][idx]: idx for idx in range(len(tbl))}
pos_dict(tbl, col) ==
    [k \in Range(Column(tbl, col)) |->
        Max({i \in DOMAIN tbl : tbl[i][col] = k}) - 1]

\* np.unique(a) as an ascending sequence
RECURSIVE np_unique_set(_)
np_unique_set(S) ==
    IF S = {} THEN <<>> ELSE <<Min(S)>> \o np_unique_set(S \ {Min(S)})
np_unique(a) == np_unique_set(Range(a))

Abs(n) == IF n < 0 THEN 0 - n ELSE n
Sign(n) == IF n < 0 THEN 0 - 1 ELSE IF n = 0 THEN 0 ELSE 1

\* Number of binary digits of a natural number
RECURSIVE BitLen(_)
BitLen(n) == IF n = 0 THEN 0 ELSE 1 + BitLen(n \div 2)

\* The number m * 2^e, written <<m, e>> with m odd, and <<0, 0>> for zero
RECURSIVE Dyadic(_, _)
Dyadic(m, e) ==
    IF m = 0 THEN <<0, 0>>
    ELSE IF m % 2 = 0 THEN Dyadic(m \div 2, e + 1) ELSE <<m, e>>

\* np.single: finite values are the dyadic numbers of at most 24 binary
\* digits between 2^F32MinExp and 2^(F32MaxExp+1); the exponent
\* F32MaxExp + 1 writes the values that are not finite: <<1, _>> is inf,
\* <<-1, _>> is -inf and <<0, _>> is nan.
F32MaxExp == 127
F32MinExp == 0 - 149
F32Inf(sign) == <<sign, F32MaxExp + 1>>
F32IsFinite(x) == x[2] # F32MaxExp + 1

\* np.power(2.0, s, dtype=np.single) for a 16-bit integer s: exact inside the
\* exponent range, inf above it and 0.0 below it
np_power(s) ==
    IF s > F32MaxExp THEN F32Inf(1)
    ELSE IF s < F32MinExp THEN <<0, 0>>
    ELSE <<1, s>>

\* np.multiply(scale, m, dtype=np.single) for a power of two (or inf, or
\* zero) scale and a 16-bit integer m: exact unless it leaves the range
np_multiply(scale, m) ==
    IF ~F32IsFinite(scale) THEN F32Inf(Sign(m) * scale[1])
    ELSE IF scale[1] = 0 \/ m = 0 THEN <<0, 0>>
    ELSE LET v == Dyadic(m * scale[1], scale[2])
         IN  IF BitLen(Abs(v[1])) + v[2] > F32MaxExp + 1
             THEN F32Inf(Sign(m)) ELSE v

RECURSIVE Flatten(_)
Flatten(ss) == IF ss = <<>> THEN <<>> ELSE Head(ss) \o Flatten(Tail(ss))

(* ------------------------------------------------- the dataset on storage *)
\* Identifiers are unique within their table and differ from row positions.
InhidOf(i) == 10 + i
BlhidOf(j) == 20 + j
SphidOf(k) == 30 + k

\* Two shapes of foreign-key column for n rows over m parent rows: every
\* parent used in turn (rows of different parents interleave), and the last
\* parent left without any row.
RoundRobin(n, m) == [k \in 1..n |-> ((k - 1) % m) + 1]
LastUnused(n, m) == [k \in 1..n |-> ((k - 1) % Max({m - 1, 1})) + 1]
OwnerShapes(n, m) == {RoundRobin(n, m), LastUnused(n, m)}

\* Channel count and correlator chunk of spectral row k (chunk 0 is the
\* pseudo-continuum chunk).
NchOf(k) == 1 + ((k - 1) % 2)
CorrchunkOf(k) == (k - 1) % 3

\* The 16-bit elements stored for spectral row k: its log2 scale factor,
\* then NchOf(k) (real, imaginary) mantissa pairs.
SpElements(k) ==
    <<k % 3>> \o Flatten([c \in 1..NchOf(k) |-> <<3 * k + c, 0 - (k + c)>>])

\* Byte offset of spectral row k inside the block of its integration: the
\* rows of one integration are stored in table order.
DataoffOf(k, inOfSp) ==
    LET before == {q \in 1..(k - 1) : inOfSp[q] = inOfSp[k]}
        F[n \in 0..NumSp] ==
            IF n = 0 THEN 0
            ELSE F[n - 1] + (IF n \in before THEN 2 * (1 + 2 * NchOf(n)) ELSE 0)
    IN  F[NumSp]

\* Record size of the autoCorrelations file for nchunks chunks
\* (scan_auto_data: last_offset + 20).
AutoChunkBytes == 131072
AutoHeaderBytes == 20
DefaultNchunks == 8
AutoRecSize(nchunks) == AutoChunkBytes * nchunks + AutoHeaderBytes

make_in_read == [i \in 1..NumIn |-> [inhid |-> InhidOf(i)]]

make_bl_read(blOwner) ==
    [j \in 1..NumBl |-> [blhid |-> BlhidOf(j), inhid |-> InhidOf(blOwner[j])]]

make_sp_read(blOwner, spOwner) ==
    LET inOfSp == [k \in 1..NumSp |-> blOwner[spOwner[k]]]
    IN  [k \in 1..NumSp |->
            [sphid |-> SphidOf(k), blhid |-> BlhidOf(spOwner[k]),
             inhid |-> InhidOf(inOfSp[k]), corrchunk |-> CorrchunkOf(k),
             nch |-> NchOf(k), dataoff |-> DataoffOf(k, inOfSp)]]

\* One engineering row per antenna and integration: two antennas for the
\* first integration, one for the others.
make_eng_read ==
    [e \in 1..(NumIn + 1) |->
        [antennaNumber |-> IF e > NumIn THEN 2 ELSE 1,
         inhid |-> InhidOf(((e - 1) % NumIn) + 1)]]

make_we_read == [i \in 1..NumIn |-> [scanNumber |-> InhidOf(i)]]

\* The index scan_auto_data builds: one record per integration.
make_ac_read ==
    [i \in 1..NumIn |->
        [inhid |-> InhidOf(i), achid |-> i, antenna |-> 1,
         nchunks |-> DefaultNchunks,
         datasize |-> AutoRecSize(DefaultNchunks),
         dataoff |-> (i - 1) * AutoRecSize(DefaultNchunks)]]

\* An autoCorrelations file of nrec records of chunks chunks each, whose
\* headers all carry declared in their nChunks field.  The header read at a
\* byte offset where no record begins is made of sample bytes: scan -1.
AutoFile(nrec, chunks, declared) ==
    [nrec |-> nrec, chunks |-> chunks, declared |-> declared]
AutoFileSize(file) == file.nrec * AutoRecSize(file.chunks)
AutoHeaderAt(file, off) ==
    IF off % AutoRecSize(file.chunks) = 0
    THEN [antenna |-> 1, nChunks |-> file.declared,
          scan |-> InhidOf((off \div AutoRecSize(file.chunks)) + 1)]
    ELSE [antenna |-> 0 - 1, nChunks |-> 0 - 1, scan |-> 0 - 1]

\* The rows scan_auto_data writes for records of nchunks chunks
auto_index(file, nchunks) ==
    [m \in 1..(AutoFileSize(file) \div AutoRecSize(nchunks)) |->
        LET data_offset == (m - 1) * AutoRecSize(nchunks)
            auto_vals   == AutoHeaderAt(file, data_offset)
        IN  [inhid |-> auto_vals.scan, achid |-> m,
             antenna |-> auto_vals.antenna, nchunks |-> nchunks,
             datasize |-> AutoRecSize(nchunks), dataoff |-> data_offset]]

\* A plausible slip: the chunk count of the first header is always used
scan_auto_data_header_first(file, nchunks) ==
    LET header == AutoHeaderAt(file, 0).nChunks
    IN  IF AutoFileSize(file) = 0
        THEN [raised |-> TRUE, error |-> "UnboundLocalError", ac_data |-> <<>>]
        ELSE IF AutoFileSize(file) % AutoRecSize(header) # 0
        THEN [raised |-> TRUE, error |-> "IndexError", ac_data |-> <<>>]
        ELSE [raised |-> FALSE, error |-> "",
              ac_data |-> auto_index(file, header)]

\* scan_auto_data(filepath, nchunks): the record size of the nchunks argument
\* is tried first; when it does not divide the file size, the nChunks field
\* of the first header is taken, and when that does not divide it either,
\* IndexError("Could not determine auto-correlation record size!") is
\* raised.  An empty file leaves ac_data unassigned at the return.
scan_auto_data(file, nchunks) ==
    LET file_size == AutoFileSize(file)
        header    == AutoHeaderAt(file, 0).nChunks
    IN  IF file_size = 0
        THEN [raised |-> TRUE, error |-> "UnboundLocalError", ac_data |-> <<>>]
        ELSE IF file_size % AutoRecSize(nchunks) = 0
        THEN [raised |-> FALSE, error |-> "",
              ac_data |-> auto_index(file, nchunks)]
        ELSE IF file_size % AutoRecSize(header) # 0
        THEN [raised |-> TRUE, error |-> "IndexError", ac_data |-> <<>>]
        ELSE [raised |-> FALSE, error |-> "",
              ac_data |-> auto_index(file, header)]

\* The sch_read file as 16-bit elements: per integration an 8-byte header
\* (int32 inhid, int32 insize, little endian, so low half then high half)
\* and insize bytes of packed data.
make_sch_read(blOwner, spOwner) ==
    LET inOfSp == [k \in 1..NumSp |-> blOwner[spOwner[k]]]
        block(i) == Flatten(Slice([k \in 1..NumSp |-> SpElements(k)],
                                  [k \in 1..NumSp |-> inOfSp[k] = i]))
    IN  Flatten([i \in 1..NumIn |->
                    <<InhidOf(i), 0, 2 * Len(block(i)), 0>> \o block(i)])

(* ----------------------------------------------------- offset index, decode *)
\* A little-endian int32 read at byte offset off of a file of 16-bit elements
Int32At(file, off) == file[(off \div 2) + 1] + 65536 * file[(off \div 2) + 2]

\* A plausible slip: the size recorded for an entry leaves out the header
RECURSIVE scan_int_loop_payload_size(_, _, _)
scan_int_loop_payload_size(file, data_offset, in_offset_dict) ==
    IF ~(data_offset < 2 * Len(file))
    THEN [dict |-> in_offset_dict, raised |-> FALSE]
    ELSE IF data_offset + 8 > 2 * Len(file)
    THEN [dict |-> in_offset_dict, raised |-> TRUE]
    ELSE LET inhid  == Int32At(file, data_offset)
             insize == Int32At(file, data_offset + 4)
         IN  scan_int_loop_payload_size(file, data_offset + insize + 8,
                 [k \in (DOMAIN in_offset_dict) \cup {inhid} |->
                     IF k = inhid THEN <<insize, data_offset>>
                     ELSE in_offset_dict[k]])

\* scan_int_start: walk the record headers of sch_read while data_offset is
\* inside the file; in_offset_dict maps inhid to (insize + 8, data_offset).
\* A header of which fewer than 8 bytes are left is read as an empty array,
\* whose element [0] raises IndexError.
RECURSIVE scan_int_loop(_, _, _)
scan_int_loop(file, data_offset, in_offset_dict) ==
    IF ~(data_offset < 2 * Len(file))
    THEN [dict |-> in_offset_dict, raised |-> FALSE]
    ELSE IF data_offset + 8 > 2 * Len(file)
    THEN [dict |-> in_offset_dict, raised |-> TRUE]
    ELSE LET inhid  == Int32At(file, data_offset)
             insize == Int32At(file, data_offset + 4)
         IN  scan_int_loop(file, data_offset + insize + 8,
                 [k \in (DOMAIN in_offset_dict) \cup {inhid} |->
                     IF k = inhid THEN <<insize + 8, data_offset>>
                     ELSE in_offset_dict[k]])

\* The size field as the code reads it, a little-endian np.int32: the high
\* element carries the sign (elements are 16-bit words, 0..65535)
Int32SignedAt(file, off) ==
    LET lo == file[(off \div 2) + 1]
        hi == file[(off \div 2) + 2]
    IN  (IF hi >= 32768 THEN hi - 65536 ELSE hi) * 65536 + lo

\* The locals of scan_int_start while it runs: pos is the position of
\* visibilities_file, which np.fromfile moves by offset and by what it reads;
\* passes counts the passes of the loop body made so far, modulo 2 (a pass
\* that leaves every local as it was is still a pass)
ScanLocals(pc, file, data_offset, last_offset, pos, in_offset_dict, passes) ==
    [pc |-> pc, file |-> file, data_offset |-> data_offset,
     last_offset |-> last_offset, pos |-> pos,
     in_offset_dict |-> in_offset_dict, passes |-> passes]

\* What scan_int_start returns, and whether it raises instead
scan_int_start(file) == scan_int_loop(file, 0, <<>>).dict
scan_int_raises(file) == scan_int_loop(file, 0, <<>>).raised

\* read_vis_data for one integration: a record of which the file does not
\* hold in_size bytes from in_start on is not read, and the dictionary
\* returned has no entry for it
read_vis_missing(file, entry) == entry[2] + entry[1] > 2 * Len(file)

\* A plausible slip: the packed data are taken from the start of the record,
\* header included
read_vis_data_from_header(file, entry) ==
    LET in_size  == entry[1]
        in_start == entry[2]
    IN  SubSeq(file, (in_start \div 2) + 1,
                     (in_start \div 2) + ((in_size - 8) \div 2))

\* read_vis_data for one integration: the packdata field of the record of
\* in_size bytes that starts at byte in_start
read_vis_data(file, entry) ==
    LET in_size  == entry[1]
        in_start == entry[2]
    IN  SubSeq(file, ((in_start + 8) \div 2) + 1,
                     ((in_start + 8) \div 2) + ((in_size - 8) \div 2))

\* The positions (1-based, ascending) at which a boolean array is true
Positions(mask) == Slice([p \in DOMAIN mask |-> p], mask)

\* A plausible slip: the mantissas are taken from the scale factor's element
\* on (start_list without the + 1)
vis_spectrum_from_scale(packdata, off, nch) ==
    LET scale_fac == np_power(packdata[off + 1])
    IN  [c \in 1..nch |->
            <<np_multiply(scale_fac, packdata[off + 2 * c - 1]),
              np_multiply(scale_fac, packdata[off + 2 * c])>>]

\* One spectrum in visibility mode: the scale factor 2^packdata[off] times
\* the nch (real, imaginary) pairs that follow it
vis_spectrum(packdata, off, nch) ==
    LET scale_fac == np_power(packdata[off + 1])
    IN  [c \in 1..nch |->
            <<np_multiply(scale_fac, packdata[off + 2 * c]),
              np_multiply(scale_fac, packdata[off + 2 * c + 1])>>]

\* A plausible slip: the decoded list is returned in the order of decoding
parse_vis_data_as_decoded(file, start_dict, sp) ==
    LET n            == Len(sp)
        inhid_arr    == Column(sp, "inhid")
        nch_arr      == Column(sp, "nch")
        dataoff_arr  == [p \in 1..n |-> sp[p].dataoff \div 2]
        unique_inhid == np_unique(inhid_arr)
        unique_nch   == np_unique(nch_arr)
        sp_pos_list  ==
            Flatten([a \in DOMAIN unique_inhid |->
                Flatten([b \in DOMAIN unique_nch |->
                    Positions([p \in 1..n |->
                                  /\ inhid_arr[p] = unique_inhid[a]
                                  /\ nch_arr[p] = unique_nch[b]])])])
        decoded(p)   ==
            vis_spectrum(read_vis_data(file, start_dict[inhid_arr[p]]),
                         dataoff_arr[p], nch_arr[p])
    IN  [x \in DOMAIN sp_pos_list |-> decoded(sp_pos_list[x])]

parse_vis_data(file, start_dict, sp) ==
    LET n            == Len(sp)
        inhid_arr    == Column(sp, "inhid")
        nch_arr      == Column(sp, "nch")
        dataoff_arr  == [p \in 1..n |-> sp[p].dataoff \div 2]
        unique_inhid == np_unique(inhid_arr)
        unique_nch   == np_unique(nch_arr)
        \* rows in the order the two loops decode them
        sp_pos_list  ==
            Flatten([a \in DOMAIN unique_inhid |->
                Flatten([b \in DOMAIN unique_nch |->
                    Positions([p \in 1..n |->
                                  /\ inhid_arr[p] = unique_inhid[a]
                                  /\ nch_arr[p] = unique_nch[b]])])])
        decoded(p)   ==
            vis_spectrum(read_vis_data(file, start_dict[inhid_arr[p]]),
                         dataoff_arr[p], nch_arr[p])
        vis_list     == [x \in DOMAIN sp_pos_list |-> decoded(sp_pos_list[x])]
        sp_pos_dict  == zip_dict(sp_pos_list, [x \in DOMAIN sp_pos_list |-> x])
    IN  [idx \in 1..Len(sp_pos_list) |-> vis_list[sp_pos_dict[idx]]]

\* parse_raw_data returns (vis_list, scale_fac_list); rows are taken
\* integration by integration
parse_raw_data(file, start_dict, sp) ==
    LET n            == Len(sp)
        inhid_arr    == Column(sp, "inhid")
        nch_arr      == Column(sp, "nch")
        dataoff_arr  == [p \in 1..n |-> sp[p].dataoff \div 2]
        unique_inhid == np_unique(inhid_arr)
        rows         ==
            Flatten([a \in DOMAIN unique_inhid |->
                Positions([p \in 1..n |-> inhid_arr[p] = unique_inhid[a]])])
        packdata(p)  == read_vis_data(file, start_dict[inhid_arr[p]])
    IN  << [x \in DOMAIN rows |->
               SubSeq(packdata(rows[x]), dataoff_arr[rows[x]] + 2,
                      dataoff_arr[rows[x]] + 1 + 2 * nch_arr[rows[x]])],
           [x \in DOMAIN rows |-> packdata(rows[x])[dataoff_arr[rows[x]] + 1]] >>

\* read_auto_data indexes dataoff[0] and so raises IndexError on an empty index
read_auto_raises(ac) == Len(ac) = 0

\* A plausible slip: the records are taken to follow one another, every
\* read skips one header only
read_auto_data_contiguous(ac, winsel) ==
    LET pos[idx \in 0..Len(ac)] ==
            IF idx = 0 THEN 0
            ELSE pos[idx - 1] + AutoHeaderBytes
                 + ac[idx].nchunks * AutoChunkBytes
        start(idx) == pos[idx - 1] + AutoHeaderBytes
    IN  [idx \in DOMAIN ac |->
            [w \in DOMAIN winsel |-> start(idx) + winsel[w] * AutoChunkBytes]]

\* read_auto_data: the file is read front to back with relative seeks; a
\* chunk of samples is named by the byte offset it was read from
read_auto_data(ac, winsel) ==
    LET del_offset == [idx \in DOMAIN ac |->
            IF idx = 1 THEN ac[1].dataoff
            ELSE ac[idx].dataoff - ac[idx - 1].dataoff - ac[idx - 1].datasize]
        \* file position before (0) and after the read of each row
        pos[idx \in 0..Len(ac)] ==
            IF idx = 0 THEN 0
            ELSE pos[idx - 1] + AutoHeaderBytes + del_offset[idx]
                 + ac[idx].nchunks * AutoChunkBytes
        start(idx) == pos[idx - 1] + AutoHeaderBytes + del_offset[idx]
    IN  [idx \in DOMAIN ac |->
            [w \in DOMAIN winsel |-> start(idx) + winsel[w] * AutoChunkBytes]]

\* load_data: winsel = np.unique(corrchunk), zeros dropped, minus one
auto_winsel(sp) ==
    LET u == np_unique(Column(sp, "corrchunk"))
        nz == Slice(u, [x \in DOMAIN u |-> u[x] # 0])
    IN  [x \in DOMAIN nz |-> nz[x] - 1]

(* ------------------------------------------------------------ construction *)
Call(op, v, r, a, raised) ==
    [op |-> op, load_vis |-> v, load_raw |-> r, load_auto |-> a,
     raised |-> raised]

\* MirParser.__init__ up to, not including, its final load_data call: the
\* tables are read, masks and filters are all true, the views are the full
\* tables, no payload is loaded and the dictionaries are empty.
InitOn(in_tbl, bl_tbl, sp_tbl, sch) ==
    /\ in_read = in_tbl
    /\ eng_read = make_eng_read
    /\ bl_read = bl_tbl
    /\ sp_read = sp_tbl
    /\ we_read = make_we_read
    /\ ac_read = make_ac_read
    /\ sch_read = sch
    /\ in_start_dict = scan_int_start(sch)
    /\ use_in = np_ones(Len(in_tbl))
    /\ use_bl = np_ones(Len(bl_tbl))
    /\ use_sp = np_ones(Len(sp_tbl))
    /\ in_filter = np_ones(Len(in_tbl))
    /\ eng_filter = np_ones(Len(make_eng_read))
    /\ bl_filter = np_ones(Len(bl_tbl))
    /\ sp_filter = np_ones(Len(sp_tbl))
    /\ we_filter = np_ones(Len(make_we_read))
    /\ ac_filter = np_ones(Len(make_ac_read))
    /\ in_data = in_tbl
    /\ eng_data = make_eng_read
    /\ bl_data = bl_tbl
    /\ sp_data = sp_tbl
    /\ we_data = make_we_read
    /\ ac_data = make_ac_read
    /\ vis_data = None
    /\ raw_data = None
    /\ auto_data = None
    /\ raw_scale_fac = None
    /\ vis_data_loaded = FALSE
    /\ raw_data_loaded = FALSE
    /\ inhid_dict = <<>>
    /\ blhid_dict = <<>>
    /\ sphid_dict = <<>>
    /\ called = Call("new", FALSE, FALSE, FALSE, FALSE)
    /\ changed = FALSE
    /\ applied = 0
    /\ edits = 0
    /\ scan = ScanLocals("idle", <<>>, 0, 0, 0, <<>>, 0)

\* The datasets of the model: one per shape of the two foreign-key columns
InitWith(BlOwners, SpOwners) ==
    \E blOwner \in BlOwners, spOwner \in SpOwners :
        InitOn(make_in_read, make_bl_read(blOwner),
               make_sp_read(blOwner, spOwner),
               make_sch_read(blOwner, spOwner))

(* ----------------------------------------------------------- filter engine *)
\* A plausible slip: the integration's mask is not looked up
bl_from_in_own_mask_only(uin, ubl) == ubl

\* _update_filter, "Filter out de-selected bl records": a baseline needs
\* its own mask entry and that of its integration
bl_from_in(uin, ubl) ==
    LET inhid_filter_dict == zip_dict(Column(in_read, "inhid"), uin)
    IN  logical_and(ubl, [j \in DOMAIN bl_read |->
                            inhid_filter_dict[bl_read[j].inhid]])

\* A plausible slip: the record's own mask entry is not used
sp_from_bl_parent_only(usp, blf) ==
    LET blhid_filter_dict == zip_dict(Column(bl_read, "blhid"), blf)
    IN  [k \in DOMAIN sp_read |-> blhid_filter_dict[sp_read[k].blhid]]

\* "Filter out de-selected sp records": a spectral record needs its own mask
\* entry and the filter entry of its baseline
sp_from_bl(usp, blf) ==
    LET blhid_filter_dict == zip_dict(Column(bl_read, "blhid"), blf)
    IN  logical_and(usp, [k \in DOMAIN sp_read |->
                            blhid_filter_dict[sp_read[k].blhid]])

\* A plausible slip: no back-propagation from the spectral records
bl_with_sp_skipped(blf, spf) == blf

\* A plausible slip: the marks of the check are inverted, a baseline is kept
\* when none of its spectral records is
bl_with_sp_inverted(blf, spf) ==
    LET good == Range(Column(Slice(sp_read, spf), "blhid"))
        sp_bl_check ==
            [key \in Range(Column(bl_read, "blhid")) \cup good |-> key \notin good]
    IN  logical_and(blf, [j \in DOMAIN bl_read |->
                            sp_bl_check[bl_read[j].blhid]])

\* "Check for bl records that have no good sp records"
bl_with_sp(blf, spf) ==
    LET good == Range(Column(Slice(sp_read, spf), "blhid"))
        sp_bl_check ==
            [key \in Range(Column(bl_read, "blhid")) \cup good |-> key \in good]
    IN  logical_and(blf, [j \in DOMAIN bl_read |->
                            sp_bl_check[bl_read[j].blhid]])

\* A plausible slip: no back-propagation from the baselines
in_with_bl_skipped(uin, blf) == uin

\* "Check for in records that have no good bl records"
in_with_bl(uin, blf) ==
    LET good == Range(Column(Slice(bl_read, blf), "inhid"))
        bl_in_check ==
            [key \in Range(Column(in_read, "inhid")) \cup good |-> key \in good]
    IN  logical_and(uin, [i \in DOMAIN in_read |->
                            bl_in_check[in_read[i].inhid]])

\* A plausible slip: the dictionary of the user mask (built at the top of
\* _update_filter under the same name) is used instead of the final filter
by_inhid_from_use_in(inf, read, col) ==
    LET inhid_filter_dict == zip_dict(Column(in_read, "inhid"), use_in)
    IN  [e \in DOMAIN read |-> inhid_filter_dict[read[e][col]]]

\* "Filter out the last two data products": a row of the engineering,
\* weather or auto-correlation table follows the integration it names
by_inhid(inf, read, col) ==
    LET inhid_filter_dict == zip_dict(Column(in_read, "inhid"), inf)
    IN  [e \in DOMAIN read |-> inhid_filter_dict[read[e][col]]]

\* _update_filter, the six filters computed from the user masks
derive_filters(uin, ubl, usp) ==
    LET bl_filter_1 == bl_from_in(uin, ubl)
        sp_filter_1 == sp_from_bl(usp, bl_filter_1)
        bl_filter_2 == bl_with_sp(bl_filter_1, sp_filter_1)
        in_filter_1 == in_with_bl(uin, bl_filter_2)
    IN  [in_filter  |-> in_filter_1,
         bl_filter  |-> bl_filter_2,
         sp_filter  |-> sp_filter_1,
         eng_filter |-> by_inhid(in_filter_1, eng_read, "inhid"),
         we_filter  |-> by_inhid(in_filter_1, we_read, "scanNumber"),
         ac_filter  |-> by_inhid(in_filter_1, ac_read, "inhid")]

\* A plausible slip: the comparison always reports a change
filter_changed_always(new) == TRUE

\* A plausible slip: "or" for "and", a change is reported only when none of
\* the three filters stayed the same
filter_changed_all_three(new) ==
    ~ (\/ sp_filter = new.sp_filter
       \/ bl_filter = new.bl_filter
       \/ in_filter = new.in_filter)

\* filter_changed: some of the new in/bl/sp filters differs from the old one
filter_changed(new) ==
    ~ (/\ sp_filter = new.sp_filter
       /\ bl_filter = new.bl_filter
       /\ in_filter = new.in_filter)

\* The view assigned to a table: re-sliced from the full table when the
\* filters changed, otherwise the view as it is
resliced(fc, old_view, read, flt) == IF fc THEN Slice(read, flt) ELSE old_view

\* A plausible slip: the dictionaries are rebuilt only when the views were
\* re-sliced
update_dicts_when_resliced ==
    IF views' # views
    THEN /\ inhid_dict' = pos_dict(in_data', "inhid")
         /\ blhid_dict' = pos_dict(bl_data', "blhid")
         /\ sphid_dict' = pos_dict(sp_data', "sphid")
    ELSE UNCHANGED dicts

\* "Craft some dictionaries": the three dictionaries are built from the
\* views as they are now, whether or not they were re-sliced
update_dicts ==
    /\ inhid_dict' = pos_dict(in_data', "inhid")
    /\ blhid_dict' = pos_dict(bl_data', "blhid")
    /\ sphid_dict' = pos_dict(sp_data', "sphid")

\* The body of _update_filter (new and fc are bound by \E over a
\* singleton so that they are computed once)
do_update_filter ==
    \E new \in {derive_filters(use_in, use_bl, use_sp)} :
    \E fc \in {filter_changed(new)} :
        /\ in_filter'  = new.in_filter
        /\ bl_filter'  = new.bl_filter
        /\ sp_filter'  = new.sp_filter
        /\ eng_filter' = new.eng_filter
        /\ we_filter'  = new.we_filter
        /\ ac_filter'  = new.ac_filter
        /\ in_data'  = resliced(fc, in_data, in_read, new.in_filter)
        /\ bl_data'  = resliced(fc, bl_data, bl_read, new.bl_filter)
        /\ sp_data'  = resliced(fc, sp_data, sp_read, new.sp_filter)
        /\ eng_data' = resliced(fc, eng_data, eng_read, new.eng_filter)
        /\ we_data'  = resliced(fc, we_data, we_read, new.we_filter)
        /\ ac_data'  = resliced(fc, ac_data, ac_read, new.ac_filter)
        /\ update_dicts
        /\ changed' = fc
        /\ applied' = IF applied < 2 THEN applied + 1 ELSE 2

constructed == called.op # "new"

\* A plausible slip: a filter application that changes the selection drops
\* the payloads decoded for the previous one
update_filter_unloads ==
    /\ constructed
    /\ do_update_filter
    /\ called' = Call("_update_filter", FALSE, FALSE, FALSE, FALSE)
    /\ vis_data' = IF changed' THEN None ELSE vis_data
    /\ raw_data' = IF changed' THEN None ELSE raw_data
    /\ auto_data' = IF changed' THEN None ELSE auto_data
    /\ UNCHANGED <<tables, scan, masks, raw_scale_fac, vis_data_loaded,
                   raw_data_loaded, edits>>

\* A direct call of _update_filter (as read_mir does after setting the masks)
update_filter ==
    /\ constructed
    /\ do_update_filter
    /\ called' = Call("_update_filter", FALSE, FALSE, FALSE, FALSE)
    /\ UNCHANGED <<tables, scan, masks, payload, edits>>

(* ------------------------------------------------------- payload life cycle *)
\* A plausible slip: load_data decodes against the views as they are and
\* leaves the filter application to the caller
do_load_data_as_is(v, r, a) ==
    /\ UNCHANGED <<filters, views, dicts, changed, applied>>
    /\ vis_data' = IF v THEN Some(parse_vis_data(sch_read, in_start_dict, sp_data))
                   ELSE vis_data
    /\ vis_data_loaded' = IF v THEN TRUE ELSE vis_data_loaded
    /\ \E raw \in {IF r THEN parse_raw_data(sch_read, in_start_dict, sp_data)
                    ELSE <<>>} :
           /\ raw_data' = IF r THEN Some(raw[1]) ELSE raw_data
           /\ raw_scale_fac' = IF r THEN Some(raw[2]) ELSE raw_scale_fac
    /\ raw_data_loaded' = IF r THEN TRUE ELSE raw_data_loaded
    /\ auto_data' = IF a /\ ~read_auto_raises(ac_data)
                    THEN Some(read_auto_data(ac_data, auto_winsel(sp_data)))
                    ELSE auto_data

\* A plausible slip: a payload that was not requested is dropped
do_load_data_exclusive(v, r, a) ==
    /\ do_update_filter
    /\ vis_data' = IF v THEN Some(parse_vis_data(sch_read, in_start_dict, sp_data'))
                   ELSE None
    /\ vis_data_loaded' = IF v THEN TRUE ELSE vis_data_loaded
    /\ \E raw \in {IF r THEN parse_raw_data(sch_read, in_start_dict, sp_data')
                    ELSE <<>>} :
           /\ raw_data' = IF r THEN Some(raw[1]) ELSE None
           /\ raw_scale_fac' = IF r THEN Some(raw[2]) ELSE raw_scale_fac
    /\ raw_data_loaded' = IF r THEN TRUE ELSE raw_data_loaded
    /\ auto_data' = IF a /\ ~read_auto_raises(ac_data')
                    THEN Some(read_auto_data(ac_data', auto_winsel(sp_data')))
                    ELSE None

\* The body of load_data(load_vis=v, load_raw=r, load_auto=a).  The filters
\* are brought up to date first; each requested payload is then decoded
\* from the views.  read_auto_data raises on an empty auto-correlation view,
\* after the visibility payloads were stored.
do_load_data(v, r, a) ==
    /\ do_update_filter
    /\ vis_data' = IF v THEN Some(parse_vis_data(sch_read, in_start_dict, sp_data'))
                   ELSE vis_data
    /\ vis_data_loaded' = IF v THEN TRUE ELSE vis_data_loaded
    /\ \E raw \in {IF r THEN parse_raw_data(sch_read, in_start_dict, sp_data')
                    ELSE <<>>} :
           /\ raw_data' = IF r THEN Some(raw[1]) ELSE raw_data
           /\ raw_scale_fac' = IF r THEN Some(raw[2]) ELSE raw_scale_fac
    /\ raw_data_loaded' = IF r THEN TRUE ELSE raw_data_loaded
    /\ auto_data' = IF a /\ ~read_auto_raises(ac_data')
                    THEN Some(read_auto_data(ac_data', auto_winsel(sp_data')))
                    ELSE auto_data

\* A plausible slip: load_vis is not passed on, load_data uses its default
construct_default_load_vis(v, r, a) ==
    /\ called.op = "new"
    /\ do_load_data(TRUE, r, a)
    /\ called' = Call("__init__", v, r, a, a /\ read_auto_raises(ac_data'))
    /\ UNCHANGED <<tables, scan, masks, edits>>

\* The last statement of MirParser.__init__
construct(v, r, a) ==
    /\ called.op = "new"
    /\ do_load_data(v, r, a)
    /\ called' = Call("__init__", v, r, a, a /\ read_auto_raises(ac_data'))
    /\ UNCHANGED <<tables, scan, masks, edits>>

\* The object exists: __init__ returned without raising
usable == constructed /\ ~(called.op = "__init__" /\ called.raised)

load_data(v, r, a) ==
    /\ usable
    /\ do_load_data(v, r, a)
    /\ called' = Call("load_data", v, r, a, a /\ read_auto_raises(ac_data'))
    /\ UNCHANGED <<tables, scan, masks, edits>>

\* A plausible slip: unloading also drops the selection, the views go back
\* to the full tables
unload_data_resets_views ==
    /\ usable
    /\ vis_data' = None
    /\ raw_data' = None
    /\ auto_data' = None
    /\ in_data' = in_read
    /\ bl_data' = bl_read
    /\ sp_data' = sp_read
    /\ eng_data' = eng_read
    /\ we_data' = we_read
    /\ ac_data' = ac_read
    /\ called' = Call("unload_data", FALSE, FALSE, FALSE, FALSE)
    /\ UNCHANGED <<tables, scan, masks, filters, dicts, raw_scale_fac,
                   vis_data_loaded, raw_data_loaded, changed, applied,
                   edits>>

unload_data ==
    /\ usable
    /\ vis_data' = IF vis_data # None THEN None ELSE vis_data
    /\ raw_data' = IF raw_data # None THEN None ELSE raw_data
    /\ auto_data' = IF auto_data # None THEN None ELSE auto_data
    /\ called' = Call("unload_data", FALSE, FALSE, FALSE, FALSE)
    /\ UNCHANGED <<tables, scan, masks, filters, views, dicts, raw_scale_fac,
                   vis_data_loaded, raw_data_loaded, changed, applied,
                   edits>>

(* ---------------------------------------------------- the caller's masks *)
\* The caller writes one entry of a user mask (mir_data.use_in[i] = b)
set_use_in(i, b) ==
    /\ usable
    /\ use_in[i] # b
    /\ use_in' = [use_in EXCEPT ![i] = b]
    /\ called' = Call("set_use_in", FALSE, FALSE, FALSE, FALSE)
    /\ applied' = 0
    /\ edits' = IF edits < MaxEdits THEN edits + 1 ELSE MaxEdits
    /\ UNCHANGED <<tables, scan, use_bl, use_sp, filters, views, dicts, payload,
                   changed>>

set_use_bl(j, b) ==
    /\ usable
    /\ use_bl[j] # b
    /\ use_bl' = [use_bl EXCEPT ![j] = b]
    /\ called' = Call("set_use_bl", FALSE, FALSE, FALSE, FALSE)
    /\ applied' = 0
    /\ edits' = IF edits < MaxEdits THEN edits + 1 ELSE MaxEdits
    /\ UNCHANGED <<tables, scan, use_in, use_sp, filters, views, dicts, payload,
                   changed>>

set_use_sp(k, b) ==
    /\ usable
    /\ use_sp[k] # b
    /\ use_sp' = [use_sp EXCEPT ![k] = b]
    /\ called' = Call("set_use_sp", FALSE, FALSE, FALSE, FALSE)
    /\ applied' = 0
    /\ edits' = IF edits < MaxEdits THEN edits + 1 ELSE MaxEdits
    /\ UNCHANGED <<tables, scan, use_in, use_bl, filters, views, dicts, payload,
                   changed>>

(* ----------------------------------------------------------- specifications *)
\* One dataset, the whole life cycle of the parser
Init == InitWith({RoundRobin(NumBl, NumIn)}, {RoundRobin(NumSp, NumBl)})

Next ==
    \/ \E v \in BOOLEAN, r \in BOOLEAN, a \in BOOLEAN : construct(v, r, a)
    \/ \E i \in 1..NumIn, b \in BOOLEAN : edits < MaxEdits /\ set_use_in(i, b)
    \/ \E j \in 1..NumBl, b \in BOOLEAN : edits < MaxEdits /\ set_use_bl(j, b)
    \/ \E k \in 1..NumSp, b \in BOOLEAN : edits < MaxEdits /\ set_use_sp(k, b)
    \/ update_filter
    \/ \E v \in BOOLEAN, r \in BOOLEAN, a \in BOOLEAN : load_data(v, r, a)
    \/ unload_data

Spec == Init /\ [][Next]_vars

\* Every shape of dataset, metadata only: construction without payload, mask
\* changes and filter applications
InitFilter == InitWith(OwnerShapes(NumBl, NumIn), OwnerShapes(NumSp, NumBl))

NextFilter ==
    \/ construct(FALSE, FALSE, FALSE)
    \/ \E i \in 1..NumIn, b \in BOOLEAN : set_use_in(i, b)
    \/ \E j \in 1..NumBl, b \in BOOLEAN : set_use_bl(j, b)
    \/ \E k \in 1..NumSp, b \in BOOLEAN : set_use_sp(k, b)
    \/ update_filter

SpecFilter == InitFilter /\ [][NextFilter]_vars

\* Every entry selected by mask a is selected by mask b
Leq(a, b) == \A x \in DOMAIN a : a[x] => b[x]

\* The caller assigns the three masks as whole arrays (as read_mir does),
\* de-selecting rows of the selection that is applied
deselect(uin, ubl, usp) ==
    /\ usable /\ applied >= 1
    /\ Leq(uin, use_in) /\ Leq(ubl, use_bl) /\ Leq(usp, use_sp)
    /\ <<uin, ubl, usp>> # masks
    /\ use_in' = uin /\ use_bl' = ubl /\ use_sp' = usp
    /\ called' = Call("deselect", FALSE, FALSE, FALSE, FALSE)
    /\ applied' = 0
    /\ UNCHANGED <<tables, scan, filters, views, dicts, payload, changed, edits>>

\* The same, selecting rows again on top of the selection that is applied
reselect(uin, ubl, usp) ==
    /\ usable /\ applied >= 1
    /\ Leq(use_in, uin) /\ Leq(use_bl, ubl) /\ Leq(use_sp, usp)
    /\ <<uin, ubl, usp>> # masks
    /\ use_in' = uin /\ use_bl' = ubl /\ use_sp' = usp
    /\ called' = Call("reselect", FALSE, FALSE, FALSE, FALSE)
    /\ applied' = 0
    /\ UNCHANGED <<tables, scan, filters, views, dicts, payload, changed, edits>>

\* Every shape of dataset, metadata only: selections narrowed and widened
\* by whole-array assignments, each applied before the next one is made
NextSelect ==
    \/ construct(FALSE, FALSE, FALSE)
    \/ \E uin \in [1..NumIn -> BOOLEAN], ubl \in [1..NumBl -> BOOLEAN],
          usp \in [1..NumSp -> BOOLEAN] : deselect(uin, ubl, usp)
    \/ \E uin \in [1..NumIn -> BOOLEAN], ubl \in [1..NumBl -> BOOLEAN],
          usp \in [1..NumSp -> BOOLEAN] : reselect(uin, ubl, usp)
    \/ update_filter

SpecSelect == InitFilter /\ [][NextSelect]_vars

(* ------------------------------------------------------ the static methods *)
\* A completed call of a static method: its argument and what it returned
StaticCall(op, args, returned, raised) ==
    [op |-> op, args |-> args, returned |-> returned, raised |-> raised]

\* The sp_data arguments tried: every arrangement of distinct rows of the
\* spectral table, in any order
RowOrders(read) ==
    LET n == Len(read)
        picks == UNION {[1..m -> 1..n] : m \in 0..n}
    IN  {[x \in DOMAIN f |-> read[f[x]]] :
            f \in {g \in picks : \A x, y \in DOMAIN g : g[x] = g[y] => x = y}}

\* A static method keeps no state: every call starts from the files as they
\* are stored, so a behaviour makes one call
no_call_yet == called.op = "new"

\* MirParser.parse_vis_data(filepath, in_start_dict, sp_data)
static_parse_vis_data(sp) ==
    /\ no_call_yet
    /\ called' = StaticCall("parse_vis_data", sp,
                     parse_vis_data(sch_read, in_start_dict, sp), FALSE)
    /\ UNCHANGED <<tables, scan, masks, filters, views, dicts, payload,
                   changed, applied, edits>>

\* MirParser.parse_raw_data(filepath, in_start_dict, sp_data)
static_parse_raw_data(sp) ==
    /\ no_call_yet
    /\ called' = StaticCall("parse_raw_data", sp,
                     parse_raw_data(sch_read, in_start_dict, sp), FALSE)
    /\ UNCHANGED <<tables, scan, masks, filters, views, dicts, payload,
                   changed, applied, edits>>

\* A synthetic visibility blob of one integration: pad elements of other
\* data, then one spectral record (log2 scale factor s and nch mantissa
\* pairs, (re, im) in the odd channels and (im, re) in the even ones), then
\* one more element
Scales == {0 - 150, 0 - 149, 0 - 1, 0, 2, 112, 113, 126, 127, 128}
Mantissas == {0 - 32768, 0 - 2, 0, 3, 32767}
BlockPairs(nch, re, im) ==
    Flatten([c \in 1..nch |-> IF c % 2 = 1 THEN <<re, im>> ELSE <<im, re>>])
make_block(s, pad, nch, re, im) ==
    [x \in 1..pad |-> 7] \o <<s>> \o BlockPairs(nch, re, im) \o <<9>>
make_blob(inhid, block) == <<inhid, 0, 2 * Len(block), 0>> \o block

\* parse_vis_data on the synthetic blob and the one row that describes its
\* spectral record
decode_block(s, pad, nch, re, im) ==
    /\ no_call_yet
    /\ \E file \in {make_blob(InhidOf(1), make_block(s, pad, nch, re, im))} :
       \E sp \in {<< [inhid |-> InhidOf(1), nch |-> nch,
                      dataoff |-> 2 * pad] >>} :
        /\ called' = StaticCall("decode_block",
                         [sp_data |-> sp, scale |-> s,
                          mantissas |-> BlockPairs(nch, re, im)],
                         parse_vis_data(file, scan_int_start(file), sp), FALSE)
        /\ UNCHANGED <<tables, scan, masks, filters, views, dicts, payload,
                       changed, applied, edits>>

\* The decoders applied to every shape of dataset and every row order
InitStatic == InitWith(OwnerShapes(NumBl, NumIn), OwnerShapes(NumSp, NumBl))

NextStatic ==
    \/ \E sp \in RowOrders(sp_read) : static_parse_vis_data(sp)
    \/ \E sp \in RowOrders(sp_read) : static_parse_raw_data(sp)
    \/ \E s \in Scales, pad \in 0..MaxPad, nch \in 1..MaxNch,
          re \in Mantissas, im \in Mantissas :
              decode_block(s, pad, nch, re, im)

SpecStatic == InitStatic /\ [][NextStatic]_vars

\* A synthetic visibility blob: record i has identifier InhidOf(i) and
\* lens[i] elements of packed data; the last cut elements of the file are
\* missing
RecordPayload(i, n) == [x \in 1..n |-> 100 * i + x]
make_records(lens) ==
    Flatten([i \in DOMAIN lens |->
                make_blob(InhidOf(i), RecordPayload(i, lens[i]))])
Truncated(file, cut) == SubSeq(file, 1, Len(file) - cut)
PayloadLens == UNION {[1..n -> 0..MaxPayload] : n \in 0..MaxRecords}

\* MirParser.scan_int_start(filepath)
static_scan_int_start(lens, cut) ==
    /\ no_call_yet
    /\ cut <= Len(make_records(lens))
    /\ \E file \in {Truncated(make_records(lens), cut)} :
       \E raises \in {scan_int_raises(file)} :
        /\ called' = StaticCall("scan_int_start",
                         [file |-> file, lens |-> lens, cut |-> cut],
                         IF raises THEN <<>> ELSE scan_int_start(file),
                         raises)
        /\ UNCHANGED <<tables, scan, masks, filters, views, dicts, payload,
                       changed, applied, edits>>

\* MirParser.read_vis_data(filepath, {inhid: in_start_dict[inhid]}) with the
\* index scan_int_start returned for the file, as parse_vis_data and
\* parse_raw_data call it; returns in_data_dict (packdata field only)
static_read_vis_data(lens, cut, i) ==
    /\ no_call_yet
    /\ cut <= Len(make_records(lens))
    /\ \E file \in {Truncated(make_records(lens), cut)} :
       \E d \in {scan_int_start(file)} :
        /\ ~scan_int_raises(file)
        /\ InhidOf(i) \in DOMAIN d
        /\ called' = StaticCall("read_vis_data",
                         [file |-> file, lens |-> lens, cut |-> cut,
                          in_start_dict |-> d, inhid |-> InhidOf(i)],
                         IF read_vis_missing(file, d[InhidOf(i)]) THEN <<>>
                         ELSE [k \in {InhidOf(i)} |->
                                  read_vis_data(file, d[InhidOf(i)])],
                         FALSE)
        /\ UNCHANGED <<tables, scan, masks, filters, views, dicts, payload,
                       changed, applied, edits>>

\* A visibility blob whose size fields are arbitrary: record i has the
\* identifier InhidOf(i), the size field sizes[i] and lens[i] elements of
\* packed data, whatever the size field says
Words32(v) == <<v % 65536, ((v - (v % 65536)) \div 65536) % 65536>>
SizeFields == {0 - 16, 0 - 8, 0, 2, 4}
make_fields(sizes, lens) ==
    Flatten([i \in DOMAIN sizes |->
                Words32(InhidOf(i)) \o Words32(sizes[i])
                \o RecordPayload(i, lens[i])])

\* scan_int_start, statement by statement.  The call opens the file:
\* data_offset = 0, last_offset = 0, in_offset_dict = {}
scan_int_open(file) ==
    /\ no_call_yet /\ scan.pc = "idle"
    /\ scan' = ScanLocals("while", file, 0, 0, 0, <<>>, 0)
    /\ UNCHANGED <<tables, masks, filters, views, dicts, payload,
                   called, changed, applied, edits>>

\* One pass of `while data_offset < file_size`: np.fromfile moves the file
\* position by last_offset (a move to before the start of the file fails
\* with OSError) and reads one header of 8 bytes (when fewer are left it
\* returns no record and [0] raises IndexError); the entry is stored,
\* last_offset becomes insize and data_offset grows by insize + 8
scan_int_iterate ==
    /\ scan.pc = "while"
    /\ scan.data_offset < 2 * Len(scan.file)
    /\ \E seek \in {scan.pos + scan.last_offset} :
          IF seek < 0 \/ seek + 8 > 2 * Len(scan.file)
          THEN /\ scan' = [scan EXCEPT !.pc = "raised"]
               /\ called' = StaticCall("scan_int_start", scan.file, <<>>, TRUE)
          ELSE \E inhid \in {Int32SignedAt(scan.file, seek)},
                  insize \in {Int32SignedAt(scan.file, seek + 4)} :
                  /\ scan' = ScanLocals("while", scan.file,
                                 scan.data_offset + insize + 8, insize,
                                 seek + 8,
                                 [k \in (DOMAIN scan.in_offset_dict) \cup {inhid}
                                    |-> IF k = inhid
                                        THEN <<insize + 8, scan.data_offset>>
                                        ELSE scan.in_offset_dict[k]],
                                 (scan.passes + 1) % 2)
                  /\ UNCHANGED called
    /\ UNCHANGED <<tables, masks, filters, views, dicts, payload,
                   changed, applied, edits>>

\* The loop condition is false: return in_offset_dict
scan_int_return ==
    /\ scan.pc = "while"
    /\ ~(scan.data_offset < 2 * Len(scan.file))
    /\ scan' = [scan EXCEPT !.pc = "returned"]
    /\ called' = StaticCall("scan_int_start", scan.file,
                            scan.in_offset_dict, FALSE)
    /\ UNCHANGED <<tables, masks, filters, views, dicts, payload,
                   changed, applied, edits>>

\* scan_int_start on blobs with arbitrary size fields.  The interpreter
\* keeps executing the call: a statement that can run does run
NextLoop ==
    \/ \E n \in 0..MaxRecords :
       \E sizes \in [1..n -> SizeFields], lens \in [1..n -> 0..MaxPayload] :
          scan_int_open(make_fields(sizes, lens))
    \/ scan_int_iterate
    \/ scan_int_return

SpecLoop ==
    /\ Init /\ [][NextLoop]_vars
    /\ WF_vars(scan_int_iterate) /\ WF_vars(scan_int_return)

\* The offset index and the record reader applied to synthetic blobs, whole
\* and truncated
NextScan ==
    \/ \E lens \in PayloadLens, cut \in 0..MaxCut :
          static_scan_int_start(lens, cut)
    \/ \E lens \in PayloadLens, cut \in 0..MaxCut, i \in 1..MaxRecords :
          static_read_vis_data(lens, cut, i)

SpecScan == Init /\ [][NextScan]_vars

\* Chunk counts of the synthetic autoCorrelations files and of the nchunks
\* argument
ChunkCounts == {2, 3, DefaultNchunks}

\* MirParser.scan_auto_data(filepath, nchunks)
static_scan_auto_data(file, nchunks) ==
    /\ no_call_yet
    /\ called' = StaticCall("scan_auto_data",
                     [file |-> file, nchunks |-> nchunks],
                     scan_auto_data(file, nchunks),
                     scan_auto_data(file, nchunks).raised)
    /\ UNCHANGED <<tables, scan, masks, filters, views, dicts, payload,
                   changed, applied, edits>>

\* The winsel arguments tried: every arrangement of distinct chunk numbers
\* of a record of nchunks chunks
WinSels(nchunks) ==
    LET picks == UNION {[1..m -> 0..(nchunks - 1)] : m \in 0..nchunks}
    IN  {g \in picks : \A x, y \in DOMAIN g : g[x] = g[y] => x = y}

\* MirParser.read_auto_data(filepath, ac_data, winsel) on the index of a
\* file from which the rows with a false keep entry were filtered out
static_read_auto_data(file, keep, winsel) ==
    /\ no_call_yet
    /\ \E ac \in {Slice(scan_auto_data(file, file.chunks).ac_data, keep)} :
        /\ called' = StaticCall("read_auto_data",
                         [file |-> file, ac_data |-> ac, winsel |-> winsel],
                         IF read_auto_raises(ac) THEN <<>>
                         ELSE read_auto_data(ac, winsel),
                         read_auto_raises(ac))
        /\ UNCHANGED <<tables, scan, masks, filters, views, dicts, payload,
                       changed, applied, edits>>

\* scan_auto_data on files whose chunk count, header and nchunks argument
\* agree or differ; read_auto_data on every sub-index of a file of three-chunk
\* records
NextAuto ==
    \/ \E nrec \in 1..MaxAutoRecs, chunks \in ChunkCounts,
          declared \in ChunkCounts, nchunks \in ChunkCounts :
              static_scan_auto_data(AutoFile(nrec, chunks, declared), nchunks)
    \/ \E keep \in [1..(MaxAutoRecs + 1) -> BOOLEAN], winsel \in WinSels(3) :
          static_read_auto_data(AutoFile(MaxAutoRecs + 1, 3, 3), keep, winsel)

SpecAuto == Init /\ [][NextAuto]_vars

(* ------------------------------------------------------------- read_mir *)
\* The columns read_mir selects on, added to the tables of a dataset: the
\* source of each integration, receiver, polarization and sideband of each
\* baseline, correlator chunk, sky frequency and resolution of each
\* spectral record (nch is the one the visibility blob was written with)
IsourceCols == {[i \in 1..NumIn |-> 1], [i \in 1..NumIn |-> i]}
IsbCols == {[j \in 1..NumBl |-> 0], [j \in 1..NumBl |-> (j - 1) % 2]}
CorrchunkCols == {[k \in 1..NumSp |-> CorrchunkOf(k)], [k \in 1..NumSp |-> 1]}
FskyCols(cc) == {[k \in 1..NumSp |-> 200 + cc[k]], [k \in 1..NumSp |-> 200 + k]}
FresCols == {[k \in 1..NumSp |-> 1], [k \in 1..NumSp |-> k]}

mir_in_read(isrc) ==
    [i \in 1..NumIn |-> make_in_read[i] @@ [isource |-> isrc[i]]]
mir_bl_read(blOwner, sb) ==
    [j \in 1..NumBl |->
        make_bl_read(blOwner)[j] @@ [irec |-> 0, ipol |-> 0, isb |-> sb[j]]]
mir_sp_read(blOwner, spOwner, cc, fsky, fres) ==
    [k \in 1..NumSp |->
        [corrchunk |-> cc[k], fsky |-> fsky[k], fres |-> fres[k]]
        @@ make_sp_read(blOwner, spOwner)[k]]

InitMir ==
    \E isrc \in IsourceCols, sb \in IsbCols, cc \in CorrchunkCols :
    \E fsky \in FskyCols(cc), fres \in FresCols :
        InitOn(mir_in_read(isrc),
               mir_bl_read(RoundRobin(NumBl, NumIn), sb),
               mir_sp_read(RoundRobin(NumBl, NumIn), RoundRobin(NumSp, NumBl),
                           cc, fsky, fres),
               make_sch_read(RoundRobin(NumBl, NumIn), RoundRobin(NumSp, NumBl)))

\* sorted(s), repeated entries kept
Sorted(s) ==
    [x \in 1..Len(s) |->
        CHOOSE v \in Range(s) :
            /\ Cardinality({i \in DOMAIN s : s[i] < v}) < x
            /\ x <= Cardinality({i \in DOMAIN s : s[i] <= v})]

\* isource, isb and corrchunk as read_mir uses them: the argument, or the
\* default that stands for None
mir_isource(isource) ==
    IF isource = None THEN np_unique(Column(in_read, "isource"))
    ELSE ValueOf(isource)
mir_isb(isb) ==
    IF isb = None THEN np_unique(Column(bl_read, "isb")) ELSE ValueOf(isb)
mir_corrchunk(corrchunk, pseudo_cont) ==
    IF corrchunk # None THEN ValueOf(corrchunk)
    ELSE IF pseudo_cont THEN <<0>>
    ELSE LET full == np_unique(Column(sp_read, "corrchunk"))
         IN  Slice(full, [x \in DOMAIN full |-> full[x] # 0])

\* {key: key in requested for key in full_list}
in_dict(full_list, requested) ==
    [key \in Range(full_list) |-> key \in Range(requested)]

\* The IndexError raised before the masks are set ("" when none is): the
\* source check looks at isource_dict, which has one key per source of the
\* file, the sideband checks look at the requested list
mir_selection_error(isource, isb) ==
    LET isource_dict ==
            in_dict(np_unique(Column(in_read, "isource")), mir_isource(isource))
        isb_full_list == np_unique(Column(bl_read, "isb"))
    IN  IF Cardinality(DOMAIN isource_dict) = 0
        THEN "No valid sources selected!"
        ELSE IF Len(mir_isb(isb)) = 0
        THEN "No valid sidebands selected!"
        ELSE IF ~(Range(mir_isb(isb)) \subseteq Range(isb_full_list))
        THEN "isb values contain invalid entries"
        ELSE ""

\* The three masks read_mir assigns
mir_use_in(isource) ==
    LET isource_dict ==
            in_dict(np_unique(Column(in_read, "isource")), mir_isource(isource))
    IN  [i \in DOMAIN in_read |-> isource_dict[in_read[i].isource]]
mir_use_bl(irec, isb) ==
    LET isb_dict == in_dict(np_unique(Column(bl_read, "isb")), mir_isb(isb))
        rec == IF irec = None THEN bl_read[1].irec ELSE ValueOf(irec)
    IN  [j \in DOMAIN bl_read |->
            /\ bl_read[j].irec = rec
            /\ bl_read[j].ipol = 0
            /\ isb_dict[bl_read[j].isb]]
mir_use_sp(corrchunk, pseudo_cont) ==
    LET corrchunk_dict == in_dict(np_unique(Column(sp_read, "corrchunk")),
                                  mir_corrchunk(corrchunk, pseudo_cont))
    IN  [k \in DOMAIN sp_read |-> corrchunk_dict[sp_read[k].corrchunk]]

\* The spectral windows read_mir walks: window idx is correlator chunk
\* corrchunk[idx] in sideband corrchunk_sb[idx]; with two sidebands the
\* chunk list is repeated once
mir_windows(isb_list, cc_list) ==
    LET sb == Sorted(isb_list)
        corrchunk_sb == Flatten([x \in DOMAIN sb |->
                                    [y \in 1..Len(cc_list) |-> sb[x]]])
        corrchunk == IF Len(isb_list) = 2 THEN cc_list \o cc_list ELSE cc_list
    IN  [idx \in DOMAIN corrchunk |->
            [corrchunk |-> corrchunk[idx], isb |-> corrchunk_sb[idx]]]

\* data_mask of one window: the rows of sp_data in that chunk whose baseline
\* (found through blhid_dict) is in that sideband
mir_data_mask(sp, bl, dict, window) ==
    {q \in DOMAIN sp :
        /\ sp[q].corrchunk = window.corrchunk
        /\ bl[dict[sp[q].blhid] + 1].isb = window.isb}

\* A plausible slip: only the channel count of a window is checked
mir_assert_fails_nch_only(sp, bl, dict, windows) ==
    \E idx \in DOMAIN windows :
        Cardinality({sp[q].nch : q \in mir_data_mask(sp, bl, dict, windows[idx])}) # 1

\* One of the three assert statements of a window fails: np.unique of its
\* fsky, fres or nch values does not have exactly one element
mir_assert_fails(sp, bl, dict, windows) ==
    \E idx \in DOMAIN windows :
        LET rows == mir_data_mask(sp, bl, dict, windows[idx])
        IN  \/ Cardinality({sp[q].fsky : q \in rows}) # 1
            \/ Cardinality({sp[q].fres : q \in rows}) # 1
            \/ Cardinality({sp[q].nch : q \in rows}) # 1

\* The six views of the filters new
slice_views(new) ==
    [in_data  |-> Slice(in_read, new.in_filter),
     bl_data  |-> Slice(bl_read, new.bl_filter),
     sp_data  |-> Slice(sp_read, new.sp_filter),
     eng_data |-> Slice(eng_read, new.eng_filter),
     we_data  |-> Slice(we_read, new.we_filter),
     ac_data  |-> Slice(ac_read, new.ac_filter)]

\* The state of mir_data when read_mir raises error or, error being "",
\* when its load_data call has returned (load)
mir_leaves(args, uin, ubl, usp, new, v, fc, n, load, error) ==
    /\ use_in' = uin /\ use_bl' = ubl /\ use_sp' = usp
    /\ in_filter'  = new.in_filter
    /\ bl_filter'  = new.bl_filter
    /\ sp_filter'  = new.sp_filter
    /\ eng_filter' = new.eng_filter
    /\ we_filter'  = new.we_filter
    /\ ac_filter'  = new.ac_filter
    /\ in_data'  = v.in_data
    /\ bl_data'  = v.bl_data
    /\ sp_data'  = v.sp_data
    /\ eng_data' = v.eng_data
    /\ we_data'  = v.we_data
    /\ ac_data'  = v.ac_data
    /\ update_dicts
    /\ changed' = fc
    /\ applied' = n
    /\ vis_data' = IF load
                   THEN Some(parse_vis_data(sch_read, in_start_dict, v.sp_data))
                   ELSE vis_data
    /\ \E raw \in {IF load THEN parse_raw_data(sch_read, in_start_dict, v.sp_data)
                    ELSE <<>>} :
           /\ raw_data' = IF load THEN Some(raw[1]) ELSE raw_data
           /\ raw_scale_fac' = IF load THEN Some(raw[2]) ELSE raw_scale_fac
    /\ vis_data_loaded' = IF load THEN TRUE ELSE vis_data_loaded
    /\ raw_data_loaded' = IF load THEN TRUE ELSE raw_data_loaded
    /\ called' = StaticCall("read_mir", args, error, error # "")
    /\ UNCHANGED <<tables, scan, auto_data, edits>>

\* Mir.read_mir(filepath, isource, irec, isb, corrchunk, pseudo_cont) up to
\* and including its load_data call.  MirParser(filepath) applies the
\* all-true masks (f0, v0); the selection is checked, the masks are
\* assigned and applied (f1, v1); an empty in_data and a window that fails
\* an assert end the call; load_data(load_vis=True, load_raw=True) applies
\* the filters once more, to no change, and decodes sp_data.
read_mir(isource, irec, isb, corrchunk, pseudo_cont) ==
    /\ no_call_yet
    /\ \E args \in {[isource |-> isource, irec |-> irec, isb |-> isb,
                     corrchunk |-> corrchunk, pseudo_cont |-> pseudo_cont]} :
       \E f0 \in {derive_filters(use_in, use_bl, use_sp)} :
       \E v0 \in {IF filter_changed(f0) THEN slice_views(f0)
                  ELSE [in_data |-> in_data, bl_data |-> bl_data,
                        sp_data |-> sp_data, eng_data |-> eng_data,
                        we_data |-> we_data, ac_data |-> ac_data]} :
       \E err \in {mir_selection_error(isource, isb)} :
          IF err # ""
          THEN mir_leaves(args, use_in, use_bl, use_sp, f0, v0,
                          filter_changed(f0), 1, FALSE, err)
          ELSE
            \E uin \in {mir_use_in(isource)}, ubl \in {mir_use_bl(irec, isb)},
               usp \in {mir_use_sp(corrchunk, pseudo_cont)} :
            \E f1 \in {derive_filters(uin, ubl, usp)} :
            \E fc1 \in {~ (/\ f0.sp_filter = f1.sp_filter
                           /\ f0.bl_filter = f1.bl_filter
                           /\ f0.in_filter = f1.in_filter)} :
            \E v1 \in {IF fc1 THEN slice_views(f1) ELSE v0} :
               IF Len(v1.in_data) = 0
               THEN mir_leaves(args, uin, ubl, usp, f1, v1, fc1, 1, FALSE,
                               "No valid records matching those selections!")
               ELSE IF mir_assert_fails(v1.sp_data, v1.bl_data,
                           pos_dict(v1.bl_data, "blhid"),
                           mir_windows(mir_isb(isb),
                                       mir_corrchunk(corrchunk, pseudo_cont)))
               THEN mir_leaves(args, uin, ubl, usp, f1, v1, fc1, 1, FALSE,
                               "AssertionError")
               ELSE mir_leaves(args, uin, ubl, usp, f1, v1, FALSE, 2, TRUE, "")

\* The arguments tried: None, lists that name what the file holds and what
\* it does not, the empty list; a sideband is named at most once in a list
IsourceArgs == {None, Some(<<>>), Some(<<1>>), Some(<<2>>), Some(<<1, 2>>),
                Some(<<NumIn + 1>>)}
IrecArgs == {None, Some(1)}
IsbArgs == {None, Some(<<>>), Some(<<0>>), Some(<<1>>), Some(<<0, 1>>),
            Some(<<1, 0>>), Some(<<2>>)}
CorrchunkArgs == {None, Some(<<0>>), Some(<<1>>), Some(<<1, 2>>), Some(<<5>>)}

NextMir ==
    \E isource \in IsourceArgs, irec \in IrecArgs, isb \in IsbArgs,
       corrchunk \in CorrchunkArgs, pseudo_cont \in BOOLEAN :
          read_mir(isource, irec, isb, corrchunk, pseudo_cont)

SpecMir == InitMir /\ [][NextMir]_vars

(* ------------------------------------------------------------- properties *)
\* The state is the one a filter application left: the last completed call
\* was __init__, _update_filter or load_data
after_update == called.op \in {"__init__", "_update_filter", "load_data"}

SetOps == {"set_use_in", "set_use_bl", "set_use_sp"}

\* C1: after a completed _update_filter, a derived filter entry that is true
\* has its user mask entry true, in each of the integration, baseline and
\* spectral-record tables.
C1_MaskMonotonicity ==
    after_update =>
        /\ \A i \in DOMAIN in_read : in_filter[i] => use_in[i]
        /\ \A j \in DOMAIN bl_read : bl_filter[j] => use_bl[j]
        /\ \A k \in DOMAIN sp_read : sp_filter[k] => use_sp[k]

\* C1 witness: an applied selection that excludes a spectral record whose
\* baseline stays included, next to a record that stays included
C1_Witness ==
    /\ called.op = "_update_filter"
    /\ \E k \in DOMAIN sp_read, j \in DOMAIN bl_read :
          /\ ~use_sp[k] /\ ~sp_filter[k]
          /\ bl_read[j].blhid = sp_read[k].blhid /\ bl_filter[j]

\* C2: after a completed _update_filter, an included spectral record has its
\* baseline included and an included baseline has its integration included.
C2_HierarchyConsistency ==
    after_update =>
        /\ \A k \in DOMAIN sp_read : sp_filter[k] =>
              \E j \in DOMAIN bl_read :
                  bl_read[j].blhid = sp_read[k].blhid /\ bl_filter[j]
        /\ \A j \in DOMAIN bl_read : bl_filter[j] =>
              \E i \in DOMAIN in_read :
                  in_read[i].inhid = bl_read[j].inhid /\ in_filter[i]

\* C2 witness: an applied selection that excludes an integration which has
\* baselines, while a spectral record of another integration is included
C2_Witness ==
    /\ called.op = "_update_filter"
    /\ \E i \in DOMAIN in_read, j \in DOMAIN bl_read :
          ~use_in[i] /\ bl_read[j].inhid = in_read[i].inhid /\ use_bl[j]
    /\ \E k \in DOMAIN sp_read : sp_filter[k]

\* C3: after a completed _update_filter, an included baseline has an included
\* spectral record and an included integration has an included baseline.
C3_NoChildlessParent ==
    after_update =>
        /\ \A j \in DOMAIN bl_read : bl_filter[j] =>
              \E k \in DOMAIN sp_read :
                  sp_read[k].blhid = bl_read[j].blhid /\ sp_filter[k]
        /\ \A i \in DOMAIN in_read : in_filter[i] =>
              \E j \in DOMAIN bl_read :
                  bl_read[j].inhid = in_read[i].inhid /\ bl_filter[j]

\* C3 witness: the caller selects an integration and one of its baselines,
\* de-selected spectral records leave that baseline without a record, and
\* the integration is excluded although use_in requested it
C3_Witness ==
    /\ called.op = "_update_filter"
    /\ \E i \in DOMAIN in_read, j \in DOMAIN bl_read, k \in DOMAIN sp_read :
          /\ use_in[i] /\ ~in_filter[i]
          /\ bl_read[j].inhid = in_read[i].inhid /\ use_bl[j] /\ ~bl_filter[j]
          /\ sp_read[k].blhid = bl_read[j].blhid /\ ~use_sp[k]

\* C4: a second _update_filter with no mask change in between returns false
\* and leaves every derived filter and every view as the first one left it.
C4_Idempotence ==
    [][(applied >= 1 /\ called'.op = "_update_filter")
          => (changed' = FALSE /\ UNCHANGED <<filters, views>>)]_vars

\* C4 witness: two applications in a row of a selection that excludes rows
C4_Witness ==
    /\ called.op = "_update_filter" /\ applied = 2 /\ ~changed
    /\ Len(sp_data) < Len(sp_read) /\ Len(sp_data) > 0

\* What the selection means, stated from the masks alone: a spectral record
\* is kept when it, its baseline and its integration are selected; a
\* baseline when it and its integration are selected and one of its records
\* is kept; an integration when it is selected and one of its baselines is
\* kept.
KeptSp(k) ==
    /\ use_sp[k]
    /\ \E j \in DOMAIN bl_read, i \in DOMAIN in_read :
          /\ bl_read[j].blhid = sp_read[k].blhid /\ use_bl[j]
          /\ in_read[i].inhid = bl_read[j].inhid /\ use_in[i]
KeptBl(j) ==
    /\ use_bl[j]
    /\ \E i \in DOMAIN in_read : in_read[i].inhid = bl_read[j].inhid /\ use_in[i]
    /\ \E k \in DOMAIN sp_read : sp_read[k].blhid = bl_read[j].blhid /\ KeptSp(k)
KeptIn(i) ==
    /\ use_in[i]
    /\ \E j \in DOMAIN bl_read : bl_read[j].inhid = in_read[i].inhid /\ KeptBl(j)
KeptBy(read, col) ==
    [e \in DOMAIN read |->
        \E i \in DOMAIN in_read : in_read[i].inhid = read[e][col] /\ KeptIn(i)]

KeptInRows == Slice(in_read, [i \in DOMAIN in_read |-> KeptIn(i)])
KeptBlRows == Slice(bl_read, [j \in DOMAIN bl_read |-> KeptBl(j)])
KeptSpRows == Slice(sp_read, [k \in DOMAIN sp_read |-> KeptSp(k)])

\* view is indexed by dict: the keys are the identifiers of the view and
\* each is mapped to the (0-based) position of its row
Indexes(dict, view, col) ==
    /\ DOMAIN dict = {view[p][col] : p \in DOMAIN view}
    /\ \A id \in DOMAIN dict :
          /\ dict[id] + 1 \in DOMAIN view
          /\ view[dict[id] + 1][col] = id

C6_DictsIndexViews ==
    after_update =>
        /\ Indexes(inhid_dict, in_data, "inhid")
        /\ Indexes(blhid_dict, bl_data, "blhid")
        /\ Indexes(sphid_dict, sp_data, "sphid")

\* C6 witness: a filtered view in which a kept row moved to another position
\* than it has in the full table
C6_Witness ==
    /\ after_update
    /\ \E p \in DOMAIN sp_data, q \in DOMAIN sp_read :
          /\ sp_data[p].sphid = sp_read[q].sphid /\ p # q
          /\ sphid_dict[sp_data[p].sphid] = p - 1

\* The step is a run of _update_filter, by itself or inside the constructor
UpdateStep == called'.op \in {"__init__", "_update_filter"}

\* C7 as stated: when no in/bl/sp filter differs from the previous one,
\* _update_filter leaves the views and the three dictionaries as they were.
C7_AsStated ==
    [][(UpdateStep /\ UNCHANGED <<in_filter, bl_filter, sp_filter>>)
          => UNCHANGED <<views, dicts>>]_vars

\* C7 amended: the views change only when one of the in/bl/sp filters
\* differs from the previous one; the dictionaries are rebuilt from the
\* current views in every call, so when no filter differs they stay as they
\* were, except in the call made by the constructor, where they go from
\* empty to the index of the unchanged views.
C7_ViewsKeptDictsRebuilt ==
    [][(UpdateStep /\ UNCHANGED <<in_filter, bl_filter, sp_filter>>)
          => /\ UNCHANGED views
             /\ changed' = FALSE
             /\ Indexes(inhid_dict', in_data', "inhid")
             /\ Indexes(blhid_dict', bl_data', "blhid")
             /\ Indexes(sphid_dict', sp_data', "sphid")
             /\ (called.op # "new" => UNCHANGED dicts)]_vars

\* C7 witness: the constructor's filter application changed no filter and
\* filled the dictionaries
C7_Witness ==
    /\ called.op = "__init__" /\ ~changed
    /\ in_data = in_read /\ bl_data = bl_read /\ sp_data = sp_read
    /\ DOMAIN sphid_dict = {sp_read[k].sphid : k \in DOMAIN sp_read}

\* C8 as stated: load_data called right after a mask change decodes the
\* visibilities against the views as they stood before the call and leaves
\* the views as they were.
C8_AsStated ==
    [][(called.op \in SetOps /\ called'.op = "load_data" /\ called'.load_vis)
          => /\ UNCHANGED views
             /\ vis_data' = Some(parse_vis_data(sch_read, in_start_dict, sp_data))
      ]_vars

\* C8 amended: load_data applies the filters itself before it decodes: after
\* load_data, also when it is called right after a mask change, the views
\* are those of the current masks and each requested visibility payload is
\* the decode of the current sp_data.
C8_LoadAppliesFilters ==
    called.op = "load_data" =>
        /\ in_data = KeptInRows
        /\ bl_data = KeptBlRows
        /\ sp_data = KeptSpRows
        /\ called.load_vis =>
              vis_data = Some(parse_vis_data(sch_read, in_start_dict,
                                             KeptSpRows))
        /\ called.load_raw =>
              /\ raw_data = Some(parse_raw_data(sch_read, in_start_dict,
                                                KeptSpRows)[1])
              /\ raw_scale_fac =
                    Some(parse_raw_data(sch_read, in_start_dict,
                                        KeptSpRows)[2])

\* C8 witness: load_data with load_vis ran on masks that had been changed
\* and not applied; it re-sliced the views and decoded the rows that remain
C8_Witness ==
    /\ called.op = "load_data" /\ called.load_vis /\ changed /\ applied = 1
    /\ Len(sp_data) < Len(sp_read) /\ Len(sp_data) > 0
    /\ Len(ValueOf(vis_data)) = Len(sp_data)

\* C9 as stated: after unload_data, vis_data, raw_data, raw_scale_fac and
\* auto_data are all None.
C9_UnloadClearsAll ==
    called.op = "unload_data" =>
        /\ vis_data = None
        /\ raw_data = None
        /\ raw_scale_fac = None
        /\ auto_data = None

\* C10: unload_data leaves the user masks, the derived filters, the views
\* and the dictionaries as they were, and it can be called in every state of
\* a constructed parser, also when no payload is loaded.
C10_UnloadKeepsSelection ==
    /\ [](usable => ENABLED unload_data)
    /\ [][called'.op = "unload_data"
            => UNCHANGED <<masks, filters, views, dicts>>]_vars

\* C10 witness: unload_data returned on a parser that never loaded
\* visibilities, with a selection that excludes rows
C10_Witness ==
    /\ called.op = "unload_data"
    /\ ~vis_data_loaded /\ ~raw_data_loaded
    /\ vis_data = None /\ raw_data = None /\ auto_data = None
    /\ raw_scale_fac = None
    /\ Len(sp_data) < Len(sp_read) /\ Len(sp_data) > 0

\* C11: right after construction the three user masks are all true and as
\* long as their tables, one filter application has run (filters, views and
\* dictionaries are those of the all-true selection), and each of vis_data,
\* raw_data and auto_data is loaded exactly when its flag was passed as true.
C11_AfterConstruction ==
    (called.op = "__init__" /\ ~called.raised) =>
        /\ use_in = np_ones(Len(in_read))
        /\ use_bl = np_ones(Len(bl_read))
        /\ use_sp = np_ones(Len(sp_read))
        /\ applied = 1
        /\ in_filter = [i \in DOMAIN in_read |-> KeptIn(i)]
        /\ bl_filter = [j \in DOMAIN bl_read |-> KeptBl(j)]
        /\ sp_filter = [k \in DOMAIN sp_read |-> KeptSp(k)]
        /\ eng_filter = KeptBy(eng_read, "inhid")
        /\ we_filter = KeptBy(we_read, "scanNumber")
        /\ ac_filter = KeptBy(ac_read, "inhid")
        /\ in_data = KeptInRows
        /\ bl_data = KeptBlRows
        /\ sp_data = KeptSpRows
        /\ eng_data = Slice(eng_read, KeptBy(eng_read, "inhid"))
        /\ we_data = Slice(we_read, KeptBy(we_read, "scanNumber"))
        /\ ac_data = Slice(ac_read, KeptBy(ac_read, "inhid"))
        /\ Indexes(inhid_dict, in_data, "inhid")
        /\ Indexes(blhid_dict, bl_data, "blhid")
        /\ Indexes(sphid_dict, sp_data, "sphid")
        /\ (vis_data # None) = called.load_vis
        /\ (raw_data # None) = called.load_raw
        /\ (raw_scale_fac # None) = called.load_raw
        /\ (auto_data # None) = called.load_auto

\* C11 witness: a parser constructed with load_raw and load_auto and without
\* load_vis
C11_Witness ==
    /\ called.op = "__init__" /\ ~called.raised
    /\ ~called.load_vis /\ called.load_raw /\ called.load_auto
    /\ vis_data = None /\ raw_data # None /\ auto_data # None
    /\ Len(ValueOf(raw_data)) = Len(sp_read)

\* What the file holds for the spectral row of identifier sphid: its log2
\* scale factor, its mantissas, and the samples they stand for
RowOf(sphid) == CHOOSE k \in 1..NumSp : SphidOf(k) = sphid
StoredScale(sphid) == SpElements(RowOf(sphid))[1]
StoredMantissas(sphid) == Tail(SpElements(RowOf(sphid)))
StoredSamples(sphid) ==
    [c \in 1..NchOf(RowOf(sphid)) |->
        <<Dyadic(StoredMantissas(sphid)[2 * c - 1], StoredScale(sphid)),
          Dyadic(StoredMantissas(sphid)[2 * c], StoredScale(sphid))>>]

\* C12: parse_vis_data returns one spectrum per row of sp_data and entry i
\* is the decode of row i, whatever the order of the rows.
C12_VisOrderedAsSpData ==
    called.op = "parse_vis_data" =>
        /\ Len(called.returned) = Len(called.args)
        /\ \A i \in DOMAIN called.args :
              called.returned[i] = StoredSamples(called.args[i].sphid)

\* C12 witness: a call on rows whose integrations interleave, and a call on
\* rows of one integration whose channel counts are mixed and not ascending
C12_Witness ==
    /\ called.op = "parse_vis_data"
    /\ Len(called.returned) = Len(called.args)
    /\ \/ \E i, j, k \in DOMAIN called.args :
              /\ i < j /\ j < k
              /\ called.args[i].inhid = called.args[k].inhid
              /\ called.args[i].inhid > called.args[j].inhid
       \/ \E i, j \in DOMAIN called.args :
              /\ i < j
              /\ called.args[i].inhid = called.args[j].inhid
              /\ called.args[i].nch > called.args[j].nch

\* C13 as stated: parse_raw_data returns the mantissa arrays and the scale
\* factors in the order of sp_data: entry i of each list is that of row i.
C13_RawOrderedAsSpData ==
    called.op = "parse_raw_data" =>
        /\ Len(called.returned[1]) = Len(called.args)
        /\ Len(called.returned[2]) = Len(called.args)
        /\ \A i \in DOMAIN called.args :
              /\ called.returned[1][i] = StoredMantissas(called.args[i].sphid)
              /\ called.returned[2][i] = StoredScale(called.args[i].sphid)

\* C14 as stated: when the visibilities and the raw data of the same
\* sp_data are loaded, sample k of row i is the k-th mantissa pair of raw
\* row i times two to the scale factor i.
C14_RawVisEquivalent ==
    (/\ called.op \in {"__init__", "load_data"}
     /\ called.load_vis /\ called.load_raw) =>
        \A i \in DOMAIN ValueOf(vis_data) :
            \A k \in DOMAIN ValueOf(vis_data)[i] :
                ValueOf(vis_data)[i][k] =
                    <<Dyadic(ValueOf(raw_data)[i][2 * k - 1],
                             ValueOf(raw_scale_fac)[i]),
                      Dyadic(ValueOf(raw_data)[i][2 * k],
                             ValueOf(raw_scale_fac)[i])>>

\* The sample of channel k of a decoded block, as the claim gives it
SampleAsStated(k) ==
    <<Dyadic(called.args.mantissas[2 * k - 1], called.args.scale),
      Dyadic(called.args.mantissas[2 * k], called.args.scale)>>

\* C15 as stated: decoding a record of nch channels yields nch samples and
\* sample k is (mantissa 2k-1 + j * mantissa 2k) * 2^s, s the scale factor
\* stored in front of the mantissas.
C15_AsStated ==
    called.op = "decode_block" =>
        /\ Len(called.returned) = 1
        /\ Len(called.returned[1]) = called.args.sp_data[1].nch
        /\ \A k \in DOMAIN called.returned[1] :
              called.returned[1][k] = SampleAsStated(k)

\* m * 2^s is a single-precision number (and so is 2^s)
InSingleRange(m, s) ==
    IF m = 0 THEN s <= F32MaxExp
    ELSE s >= F32MinExp /\ BitLen(Abs(m)) + s <= F32MaxExp + 1

\* C15 amended: the decode yields nch samples; a component of sample k is
\* its mantissa times 2^s whenever that product and 2^s are single-precision
\* numbers, it is 0 when 2^s is below the single-precision range, and it is
\* not finite otherwise.
C15_DecodeInSingleRange ==
    called.op = "decode_block" =>
        /\ Len(called.returned) = 1
        /\ Len(called.returned[1]) = called.args.sp_data[1].nch
        /\ \A k \in DOMAIN called.returned[1] : \A part \in 1..2 :
              LET m == called.args.mantissas[2 * k - 2 + part]
                  s == called.args.scale
                  x == called.returned[1][k][part]
              IN  IF InSingleRange(m, s) THEN x = SampleAsStated(k)[part]
                  ELSE IF s < F32MinExp THEN x = <<0, 0>>
                  ELSE ~F32IsFinite(x)

\* C15 witness: the pair (3, -2) stored behind other data with a negative
\* scale factor, decoded to (3 - 2j) / 2
C15_Witness ==
    /\ called.op = "decode_block"
    /\ called.args.sp_data[1].dataoff > 0
    /\ called.args.scale = 0 - 1
    /\ called.args.mantissas[1] = 3 /\ called.args.mantissas[2] = 0 - 2
    /\ called.returned[1][1] = << <<3, 0 - 1>>, <<0 - 1, 0>> >>

RECURSIVE SeqSum(_)
SeqSum(q) == IF q = <<>> THEN 0 ELSE Head(q) + SeqSum(Tail(q))

\* Bytes of record i of a synthetic blob, header included, and the byte at
\* which it begins
RecordBytes(lens, i) == 8 + 2 * lens[i]
RecordStart(lens, i) == SeqSum([q \in 1..(i - 1) |-> RecordBytes(lens, q)])

\* C16: on a blob of N whole records with distinct identifiers,
\* scan_int_start returns exactly N entries, one per record, with offsets
\* strictly increasing in file order and sizes that sum to the file size.
C16_OffsetIndexComplete ==
    (called.op = "scan_int_start" /\ called.args.cut = 0) =>
        LET N == Len(called.args.lens)
            d == called.returned
        IN  /\ ~called.raised
            /\ DOMAIN d = {InhidOf(i) : i \in 1..N}
            /\ \A i, j \in 1..N :
                  i < j => d[InhidOf(i)][2] < d[InhidOf(j)][2]
            /\ SeqSum([i \in 1..N |-> d[InhidOf(i)][1]])
                  = 2 * Len(called.args.file)

\* C16 witness: a scan of three whole records, one of them without packed
\* data and one with the most
C16_Witness ==
    /\ called.op = "scan_int_start" /\ called.args.cut = 0 /\ ~called.raised
    /\ Len(called.args.lens) = MaxRecords
    /\ called.args.lens[1] = MaxPayload /\ called.args.lens[2] = 0
    /\ Cardinality(DOMAIN called.returned) = MaxRecords

\* A header of the blob is whole and declares more bytes than the file holds
\* after it
HeaderOverruns(lens, file) ==
    \E i \in DOMAIN lens :
        /\ RecordStart(lens, i) + 8 <= 2 * Len(file)
        /\ RecordStart(lens, i) + RecordBytes(lens, i) > 2 * Len(file)

\* C17 as stated: scan_int_start raises when a header declares more bytes
\* than remain after it, and an index it returns has no entry that extends
\* past the end of the file.
C17_TruncationRaises ==
    called.op = "scan_int_start" =>
        /\ HeaderOverruns(called.args.lens, called.args.file) => called.raised
        /\ ~called.raised =>
              \A id \in DOMAIN called.returned :
                  called.returned[id][2] + called.returned[id][1]
                      <= 2 * Len(called.args.file)

\* The second header field of record i as the file holds it, the index entry
\* of record i and the packed data read for it
SizeField(i) ==
    Int32At(called.args.file, RecordStart(called.args.lens, i) + 4)
EntryOf(i) == called.args.in_start_dict[InhidOf(i)]
ReadRecord == CHOOSE i \in 1..MaxRecords : InhidOf(i) = called.args.inhid

\* C18 as stated: the second header field is the size of the whole record:
\* the next record starts that many bytes after this one, the index records
\* that size, and the reader returns that size minus 8 bytes of packed data.
C18_AsStated ==
    (called.op = "read_vis_data" /\ called.args.cut = 0) =>
        LET i == ReadRecord
        IN  /\ EntryOf(i)[1] = SizeField(i)
            /\ i < Len(called.args.lens) =>
                  EntryOf(i + 1)[2] = EntryOf(i)[2] + SizeField(i)
            /\ 2 * Len(called.returned[called.args.inhid]) = SizeField(i) - 8

\* C18 amended: the second header field is the size of the packed data, the
\* 8-byte header not counted: the next record starts that many bytes plus 8
\* after this one, the index records the field plus 8, and the reader
\* returns as many bytes of packed data as the field says, those stored
\* behind the header.
C18_FieldIsPayloadSize ==
    (called.op = "read_vis_data" /\ called.args.cut = 0) =>
        LET i == ReadRecord
        IN  /\ EntryOf(i)[1] = SizeField(i) + 8
            /\ EntryOf(i)[2] = RecordStart(called.args.lens, i)
            /\ i < Len(called.args.lens) =>
                  EntryOf(i + 1)[2] = EntryOf(i)[2] + SizeField(i) + 8
            /\ 2 * Len(called.returned[called.args.inhid]) = SizeField(i)
            /\ called.returned[called.args.inhid]
                  = RecordPayload(i, called.args.lens[i])

\* C18 witness: the second of three whole records is read and has packed
\* data
C18_Witness ==
    /\ called.op = "read_vis_data" /\ called.args.cut = 0
    /\ Len(called.args.lens) = MaxRecords /\ called.args.inhid = InhidOf(2)
    /\ Len(called.returned[InhidOf(2)]) = MaxPayload
    /\ called.args.lens[1] > 0

\* The call built the index for records of chunks chunks each: one row per
\* record of that size, of size chunks * 16384 * 2 * 4 + 20 bytes
IndexBuiltWith(chunks) ==
    /\ ~called.raised
    /\ Len(called.returned.ac_data)
          = AutoFileSize(called.args.file) \div (chunks * 16384 * 2 * 4 + 20)
    /\ \A m \in DOMAIN called.returned.ac_data :
          /\ called.returned.ac_data[m].nchunks = chunks
          /\ called.returned.ac_data[m].datasize = chunks * 16384 * 2 * 4 + 20
          /\ called.returned.ac_data[m].dataoff
                = (m - 1) * (chunks * 16384 * 2 * 4 + 20)
RaisesIndexError == called.raised /\ called.returned.error = "IndexError"
Divides(chunks) ==
    AutoFileSize(called.args.file) % (chunks * 16384 * 2 * 4 + 20) = 0

\* C19 as stated: scan_auto_data builds the index with the record size of
\* the chunk count C2 the first header declares when that size divides the
\* file size, and raises the index-derivation error otherwise.
C19_AsStated ==
    called.op = "scan_auto_data" =>
        IF Divides(called.args.file.declared)
        THEN IndexBuiltWith(called.args.file.declared)
        ELSE RaisesIndexError

\* C19 amended: when the record size of the nchunks argument divides the
\* file size the index is built with the argument and the header is not
\* consulted; otherwise the index is built with the chunk count of the first
\* header if that size divides the file size, and the index-derivation
\* error is raised if not.
C19_ArgumentThenHeader ==
    called.op = "scan_auto_data" =>
        IF Divides(called.args.nchunks)
        THEN IndexBuiltWith(called.args.nchunks)
        ELSE IF Divides(called.args.file.declared)
        THEN IndexBuiltWith(called.args.file.declared)
        ELSE RaisesIndexError

\* C19 witness: a file of two records of three chunks whose header says
\* three, scanned with the default argument of eight: the index is re-derived
\* from the header
C19_Witness ==
    /\ called.op = "scan_auto_data" /\ ~called.raised
    /\ called.args.nchunks = DefaultNchunks
    /\ called.args.file.chunks = 3 /\ called.args.file.declared = 3
    /\ Len(called.returned.ac_data) = 2
    /\ called.returned.ac_data[2].nchunks = 3

\* C20: for every row of the index it is given, read_auto_data returns the
\* samples that start 20 bytes after the row's byte offset, and of them the
\* chunks named by winsel, in the order of winsel.
C20_ReadsAtRecordedOffset ==
    (called.op = "read_auto_data" /\ ~called.raised) =>
        /\ Len(called.returned) = Len(called.args.ac_data)
        /\ \A idx \in DOMAIN called.args.ac_data :
              /\ Len(called.returned[idx]) = Len(called.args.winsel)
              /\ \A w \in DOMAIN called.args.winsel :
                    called.returned[idx][w] =
                        called.args.ac_data[idx].dataoff + 20
                        + called.args.winsel[w] * (2 * 16384 * 4)

\* C20 witness: an index with a gap (the first and the third record of the
\* file) read for two chunks in descending order
C20_Witness ==
    /\ called.op = "read_auto_data" /\ ~called.raised
    /\ Len(called.args.ac_data) = 2
    /\ called.args.ac_data[1].achid = 1 /\ called.args.ac_data[2].achid = 3
    /\ called.args.winsel = <<2, 0>>
    /\ Len(called.returned) = 2

\* The user masks exclude every row of one level
AllFalse(mask) == \A x \in DOMAIN mask : ~mask[x]
LevelExcluded == AllFalse(use_in) \/ AllFalse(use_bl) \/ AllFalse(use_sp)

\* C23: when the user masks exclude every row at one level, _update_filter
\* completes (it has no raising path: the call is enabled), and after it the
\* integration, baseline and spectral-record views all have length zero.
C23_EmptyLevelEmptiesViews ==
    /\ (usable /\ LevelExcluded) => ENABLED update_filter
    /\ (called.op = "_update_filter" /\ LevelExcluded) =>
          Len(in_data) = 0 /\ Len(bl_data) = 0 /\ Len(sp_data) = 0

\* C23 witness: every spectral record de-selected while every integration
\* and every baseline stays selected, and the filters applied
C23_Witness ==
    /\ called.op = "_update_filter"
    /\ AllFalse(use_sp) /\ ~AllFalse(use_in) /\ ~AllFalse(use_bl)
    /\ \A i \in DOMAIN use_in : use_in[i]
    /\ \A j \in DOMAIN use_bl : use_bl[j]
    /\ Len(in_data) = 0 /\ Len(bl_data) = 0 /\ Len(sp_data) = 0

\* C24: after a completed _update_filter, a row of the engineering, weather
\* or auto-correlation table is included exactly when the integration it
\* names (inhid, scanNumber for weather) is included by the final in_filter,
\* and each of the three filters is as long as its own table.
FollowsIntegration(flt, read, col) ==
    /\ DOMAIN flt = DOMAIN read
    /\ \A e \in DOMAIN read :
          flt[e] <=> \E i \in DOMAIN in_read :
                         in_read[i].inhid = read[e][col] /\ in_filter[i]
C24_AuxFollowIntegration ==
    after_update =>
        /\ FollowsIntegration(eng_filter, eng_read, "inhid")
        /\ FollowsIntegration(we_filter, we_read, "scanNumber")
        /\ FollowsIntegration(ac_filter, ac_read, "inhid")

\* C24 witness: an integration stays selected by use_in and is excluded by
\* the final in_filter (no baseline of it is kept); its engineering, weather
\* and auto-correlation rows are excluded, those of another integration are
\* included
C24_Witness ==
    /\ called.op = "_update_filter"
    /\ \E i \in DOMAIN in_read :
          /\ use_in[i] /\ ~in_filter[i]
          /\ \E e \in DOMAIN eng_read :
                eng_read[e].inhid = in_read[i].inhid /\ ~eng_filter[e]
          /\ \E w \in DOMAIN we_read :
                we_read[w].scanNumber = in_read[i].inhid /\ ~we_filter[w]
          /\ \E a \in DOMAIN ac_read :
                ac_read[a].inhid = in_read[i].inhid /\ ~ac_filter[a]
    /\ \E e \in DOMAIN eng_read : eng_filter[e]
    /\ \E w \in DOMAIN we_read : we_filter[w]
    /\ \E a \in DOMAIN ac_read : ac_filter[a]

\* C25: load_data assigns only the payloads whose flag is true: a payload
\* whose flag is false is left as it was (raw_scale_fac goes with load_raw),
\* and every payload whose flag is true is set by the same call.
C25_LoadSetsFlaggedOnly ==
    [][called'.op = "load_data" =>
          /\ ~called'.load_vis => UNCHANGED vis_data
          /\ ~called'.load_raw => UNCHANGED <<raw_data, raw_scale_fac>>
          /\ ~called'.load_auto => UNCHANGED auto_data
          /\ called'.load_vis =>
                vis_data' = Some(parse_vis_data(sch_read, in_start_dict,
                                                sp_data'))
          /\ called'.load_raw =>
                /\ raw_data' = Some(parse_raw_data(sch_read, in_start_dict,
                                                   sp_data')[1])
                /\ raw_scale_fac' = Some(parse_raw_data(sch_read,
                                             in_start_dict, sp_data')[2])
          /\ (called'.load_auto /\ ~called'.raised) =>
                auto_data' = Some(read_auto_data(ac_data',
                                                 auto_winsel(sp_data')))
      ]_vars

\* C25 witness: load_data with load_vis alone returned on a parser that
\* held raw data and auto-correlations: they are still held
C25_Witness ==
    /\ called.op = "load_data"
    /\ called.load_vis /\ ~called.load_raw /\ ~called.load_auto
    /\ vis_data # None /\ raw_data # None /\ raw_scale_fac # None
    /\ auto_data # None

\* A loaded payload has one entry per row of the current sp_data
VisMatchesView == vis_data # None => Len(ValueOf(vis_data)) = Len(sp_data)
RawMatchesView ==
    raw_data # None =>
        /\ Len(ValueOf(raw_data)) = Len(sp_data)
        /\ raw_scale_fac # None
        /\ Len(ValueOf(raw_scale_fac)) = Len(sp_data)

\* C26 as stated: in every state reachable by mask changes, _update_filter,
\* load_data and unload_data, a loaded payload matches the current view:
\* vis_data, and raw_data with raw_scale_fac, have one entry per row of
\* sp_data whenever they are not None.
C26_AsStated == VisMatchesView /\ RawMatchesView

\* C26 amended: a payload matches the view in the state its load left
\* (__init__ or load_data with its flag true), and a direct _update_filter
\* leaves every payload as it was, whatever it does to the views: a payload
\* loaded before a change of selection keeps the rows of the selection it
\* was loaded for until load_data is called again.
C26_MatchesViewWhenLoaded ==
    /\ []((called.op \in {"__init__", "load_data"} /\ called.load_vis)
            => (vis_data # None /\ VisMatchesView))
    /\ []((called.op \in {"__init__", "load_data"} /\ called.load_raw)
            => (raw_data # None /\ RawMatchesView))
    /\ [][called'.op = "_update_filter" => UNCHANGED payload]_vars

\* C26 witness: visibilities and raw data were loaded, the selection was
\* narrowed and applied by _update_filter: sp_data has fewer rows than the
\* payloads have entries
C26_Witness ==
    /\ called.op = "_update_filter" /\ changed /\ edits >= 1
    /\ vis_data # None /\ raw_data # None
    /\ Len(sp_data) < Len(ValueOf(vis_data))
    /\ Len(sp_data) < Len(ValueOf(raw_data))

\* What the filters are with nothing de-selected, stated from the tables
\* alone: a spectral record is kept when its baseline and that baseline's
\* integration exist, a baseline when it also has such a record, an
\* integration when it has such a baseline
UnmaskedSp(k) ==
    \E j \in DOMAIN bl_read, i \in DOMAIN in_read :
        /\ bl_read[j].blhid = sp_read[k].blhid
        /\ in_read[i].inhid = bl_read[j].inhid
UnmaskedBl(j) ==
    /\ \E i \in DOMAIN in_read : in_read[i].inhid = bl_read[j].inhid
    /\ \E k \in DOMAIN sp_read :
          sp_read[k].blhid = bl_read[j].blhid /\ UnmaskedSp(k)
UnmaskedIn(i) ==
    \E j \in DOMAIN bl_read :
        bl_read[j].inhid = in_read[i].inhid /\ UnmaskedBl(j)
UnmaskedFilters ==
    /\ in_filter = [i \in DOMAIN in_read |-> UnmaskedIn(i)]
    /\ bl_filter = [j \in DOMAIN bl_read |-> UnmaskedBl(j)]
    /\ sp_filter = [k \in DOMAIN sp_read |-> UnmaskedSp(k)]

\* C28: the filters are monotone in the user masks.  When masks A were
\* applied and masks B select every row A selects (reselect), every row of
\* in_filter, bl_filter and sp_filter is still included after B is applied;
\* seen from B (deselect), applying A includes no row B did not include.
\* In particular the filters of the all-true masks, whenever they are
\* applied, are those construction left.
C28_MonotoneInMasks ==
    /\ [][(called.op = "reselect" /\ called'.op = "_update_filter") =>
            /\ Leq(in_filter, in_filter')
            /\ Leq(bl_filter, bl_filter')
            /\ Leq(sp_filter, sp_filter')]_vars
    /\ [][(called.op = "deselect" /\ called'.op = "_update_filter") =>
            /\ Leq(in_filter', in_filter)
            /\ Leq(bl_filter', bl_filter)
            /\ Leq(sp_filter', sp_filter)]_vars
    /\ [](called.op = "__init__" => UnmaskedFilters)
    /\ []((called.op = "_update_filter"
             /\ \A i \in DOMAIN use_in : use_in[i]
             /\ \A j \in DOMAIN use_bl : use_bl[j]
             /\ \A k \in DOMAIN use_sp : use_sp[k]) => UnmaskedFilters)

\* C28 witness: the masks were reset to all-true from a selection that
\* excluded rows, and applied: the filters changed and include rows again
C28_Witness ==
    /\ called.op = "_update_filter" /\ changed /\ applied = 1
    /\ \A i \in DOMAIN use_in : use_in[i]
    /\ \A j \in DOMAIN use_bl : use_bl[j]
    /\ \A k \in DOMAIN use_sp : use_sp[k]
    /\ \E k \in DOMAIN sp_read : sp_filter[k]

\* C27 as stated: scan_int_start terminates on every finite visibility blob,
\* whatever values the size fields carry, zero and negative ones included:
\* a call that started returns an index or raises.
C27_ScanTerminates ==
    (scan.pc = "while") ~> (scan.pc \in {"returned", "raised"})

\* What a read_mir call asked for, and what it left
Requested(arg) == IF arg = None THEN {} ELSE Range(ValueOf(arg))
NoPayloadDecoded ==
    /\ vis_data = None /\ raw_data = None /\ raw_scale_fac = None
    /\ auto_data = None /\ ~vis_data_loaded /\ ~raw_data_loaded
SourcesMatch ==
    \/ called.args.isource = None
    \/ \E i \in DOMAIN in_read : in_read[i].isource \in Requested(called.args.isource)
SidebandsExist ==
    \/ called.args.isb = None
    \/ /\ Requested(called.args.isb) # {}
       /\ \A sb \in Requested(called.args.isb) :
             \E j \in DOMAIN bl_read : bl_read[j].isb = sb

\* C21 as stated: read_mir reports an empty selection with an error naming
\* the level: a requested source list that matches no integration row gives
\* 'No valid sources selected', an empty requested sideband list gives 'No
\* valid sidebands selected', a selection whose sources and sidebands exist
\* and that leaves no integration gives 'No valid records matching those
\* selections'; in each case no payload is decoded.
C21_ErrorNamesLevel ==
    called.op = "read_mir" =>
        /\ ~SourcesMatch =>
              /\ called.raised
              /\ called.returned = "No valid sources selected!"
              /\ NoPayloadDecoded
        /\ (SourcesMatch /\ called.args.isb = Some(<<>>)) =>
              /\ called.raised
              /\ called.returned = "No valid sidebands selected!"
              /\ NoPayloadDecoded
        /\ (SourcesMatch /\ SidebandsExist /\ Len(in_data) = 0) =>
              /\ called.raised
              /\ called.returned = "No valid records matching those selections!"
              /\ NoPayloadDecoded

\* Two selected spectral records of one correlator chunk and one sideband
\* differ in fsky, fres or nch
SidebandOf(k) ==
    bl_read[CHOOSE j \in DOMAIN bl_read : bl_read[j].blhid = sp_read[k].blhid].isb
MixedWindow ==
    \E k1, k2 \in DOMAIN sp_read :
        /\ sp_filter[k1] /\ sp_filter[k2]
        /\ sp_read[k1].corrchunk = sp_read[k2].corrchunk
        /\ SidebandOf(k1) = SidebandOf(k2)
        /\ \/ sp_read[k1].fsky # sp_read[k2].fsky
           \/ sp_read[k1].fres # sp_read[k2].fres
           \/ sp_read[k1].nch # sp_read[k2].nch

====
